---- MODULE Spec2Model ----
(***************************************************************************)
(* Model of the noet backend (backend/app.go with authentication): the     *)
(* SSE event hub (addClient / removeClient / broadcast and the             *)
(* /api/posts/stream handler), the post handlers that publish to it, and   *)
(* the refresh-token service behind /api/auth/refresh, and the browser's   *)
(* AuthProvider (frontend/src/components/auth/AuthProvider.tsx).           *)
(*                                                                         *)
(* The specifications share the variables:                                 *)
(*   SpecHub   - the hub's three operations driven by arbitrary callers;   *)
(*   SpecFull  - the hub with subscribers that stop reading, up to and     *)
(*               beyond the channel capacity;                              *)
(*   Spec      - the HTTP handlers for posts and the stream, each database *)
(*               statement and each goroutine an interleaving point;       *)
(*   SpecWrite - every writing endpoint with any Authorization header,     *)
(*               malformed bodies and failing database statements;         *)
(*   SpecAuth  - registration, login, token refresh and validation;        *)
(*   SpecReg   - concurrent registrations under different usernames;       *)
(*   SpecClient - the browser's AuthProvider over the auth endpoints;      *)
(*   SpecStream - stream handlers whose connections are closed, with       *)
(*               fairness of the handlers' steps;                          *)
(*   SpecSnapshot - stream handlers whose snapshot query can fail;         *)
(*   SpecQueue - stalled mailboxes that are removed and closed;            *)
(*   SpecCrud  - the post endpoints with their reads;                      *)
(*   SpecRefresh - token refresh with failing database statements;         *)
(*   SpecSettings - the settings endpoints read and written.               *)
(***************************************************************************)
EXTENDS Integers, Sequences, FiniteSets, TLC

(* ------------------------------ bounds --------------------------------- *)
\* channels created by callers of addClient in SpecHub
MaxChans == 2
\* broadcast calls in SpecHub
MaxPublish == 3
\* receives from the channels in SpecHub
MaxRecv == 2
\* removeClient calls in SpecHub
MaxRemoves == 2
\* broadcast calls beyond the channel capacity in SpecFull
MaxOverflow == 1
\* the latest broadcast count at which SpecFull still registers a channel
MaxLateJoin == 1

\* goroutines serving auth requests at the same time in SpecAuth
MaxAuthProcs == 2
\* auth requests started in SpecAuth
MaxAuthReqs == 3

\* goroutines serving write requests at the same time in Spec and SpecWrite
MaxWriters == 2
\* write requests started in Spec and SpecWrite
MaxWriteReqs == 3
\* keep-alive frames written in Spec
MaxPings == 1
\* stream requests in Spec
MaxStreams == 1
\* events published while stream connections are closed
MaxStreamEvents == 1

(* ------------------------- program constants --------------------------- *)
\* make(chan string, 16)
ChanCap == 16
\* refresh tokens expire 30 days after issuance (the clock counts days)
RefreshTTL == 30
\* access tokens expire 7 days after issuance
AccessTTL == 7
\* len(payload.Password) < 3 is rejected
MinPasswordLen == 3

Chans == 1..MaxChans
\* "no channel": the zero value a map lookup yields for an absent key
NilChan == 0

EventKinds == <<"post-created", "post-updated", "post-deleted">>

VARIABLES
    \* App.clients: map[int]chan string, as a function id -> channel
    clients,
    \* App.nextClientID
    nextClientID,
    \* the buffer of each channel made by a stream handler
    chBuf,
    \* whether close(ch) has run on the channel
    chClosed,
    \* removeClient calls that have left the locked section holding ch and
    \* have not yet run close(ch): channel -> number of such calls
    closing,
    \* the runtime panic raised, "none" if none
    panicked,
    \* history: number of broadcast calls that have run their locked section
    pubCount,
    \* history: pubCount when the channel was registered (-1: not yet)
    regAt,
    \* history: pubCount when the channel's entry was deleted (-1: not yet)
    remAt,
    \* history: messages received from each channel, in order
    recvd,
    \* history: seq of the messages broadcast dropped for each channel
    dropped,
    \* history: the length of the channel's buffer at each drop
    dropLen,
    \* history: removeClient calls made per id
    removeCalls,
    \* table users: set of rows [id, username, password_hash]
    users,
    \* AUTOINCREMENT counter of table users
    nextUserID,
    \* table refresh_tokens: set of rows [user_id, token_hash, expires_at, created_at]
    refresh_tokens,
    \* table settings: key -> value
    settings,
    \* App.JWTSecret
    JWTSecret,
    \* time.Now(), in days
    now,
    \* number of values drawn from crypto/rand so far
    rng,
    \* position of each goroutine serving an auth request
    apc,
    \* the locals of each such goroutine
    aloc,
    \* the response written last by such a goroutine
    aresp,
    \* history: successful refreshes, [old, new, uid, exp]
    rotations,
    \* history: auth requests started
    areqs,
    \* history: the token pairs the responses carried, [raw, jwt, uid, exp]
    emitted,
    \* the browser: position of the AuthProvider (idle, or awaiting a fetch)
    cpc,
    \* localStorage "auth_token" and "refresh_token" (NoJWT, 0: absent)
    auth_token,
    refresh_token,
    \* AuthProvider state: token, refreshTokenValue, user (its id; 0: null)
    token,
    refreshTokenValue,
    user,
    \* history: the refresh tokens the sessions held when they logged out
    loggedOut,
    \* history: the refresh tokens whose refresh the browser saw rejected
    rejected,
    \* table posts: id -> content
    posts,
    \* AUTOINCREMENT counter of table posts
    nextPostID,
    \* number of rows of table attachments (one file each)
    attachments,
    \* the broadcast goroutines started by "go a.broadcast" that have not run
    pending,
    \* position of each goroutine serving a write request
    wpc,
    \* the locals of each such goroutine
    wloc,
    \* history: write requests started
    wreqs,
    \* the response written last by such a goroutine
    wresp,
    \* history: the changes of table posts in the order they were committed,
    \* each with the serial number of its request and the status that
    \* request was answered with (0: not yet)
    commitLog,
    \* position of each stream handler
    spc,
    \* the id addClient returned to each stream handler
    sid,
    \* history: number of committed changes when the handler's snapshot
    \* query ran (-1: not yet)
    snapAt,
    \* history: keep-alive frames written
    pings,
    \* the request context of each stream handler is cancelled
    ctxDone,
    \* history: the event name of the first frame each handler wrote
    firstFrame

hubVars == <<clients, nextClientID, chBuf, chClosed, closing, panicked>>
hubHist == <<pubCount, regAt, remAt, recvd, dropped, dropLen, removeCalls>>
authDB == <<users, nextUserID, refresh_tokens, settings>>
authProc == <<apc, aloc, aresp, rotations, areqs, emitted>>
clientVars == <<cpc, auth_token, refresh_token, token, refreshTokenValue, user,
                loggedOut, rejected>>
authVars == <<authDB, JWTSecret, now, rng, authProc, clientVars>>
postDB == <<posts, nextPostID, attachments>>
writerVars == <<pending, wpc, wloc, wreqs, wresp, commitLog>>
streamVars == <<spc, sid, snapAt, pings, ctxDone, firstFrame>>
postVars == <<postDB, writerVars, streamVars>>
vars == <<hubVars, hubHist, authVars, postVars>>

(* ------------------------------- the hub ------------------------------- *)
\* the channel registered under id, NilChan when the key is absent
Lookup(id) == IF id \in DOMAIN clients THEN clients[id] ELSE NilChan

\* ids whose entry holds channel c
IdsOf(c) == {id \in DOMAIN clients : clients[id] = c}

Registered(c) == IdsOf(c) # {}

\* addClient without the increment of nextClientID: the next registration
\* overwrites the entry
addClient_noIncrement(c) ==
    /\ clients' = [id \in DOMAIN clients \cup {nextClientID} |->
                      IF id = nextClientID THEN c ELSE clients[id]]
    /\ UNCHANGED nextClientID

\* addClient that hands out the lowest id not in the registry
addClient_lowestFree(c) ==
    LET free == CHOOSE id \in 0..nextClientID :
                    id \notin DOMAIN clients /\ \A j \in 0..(id - 1) : j \in DOMAIN clients
    IN /\ clients' = [id \in DOMAIN clients \cup {free} |->
                         IF id = free THEN c ELSE clients[id]]
       /\ nextClientID' = IF free = nextClientID THEN nextClientID + 1 ELSE nextClientID

\* addClient(ch): under the lock, id := nextClientID; nextClientID++;
\* clients[id] = ch; returns id (the value of nextClientID before the call)
addClient(c) ==
    /\ clients' = [id \in DOMAIN clients \cup {nextClientID} |->
                      IF id = nextClientID THEN c ELSE clients[id]]
    /\ nextClientID' = nextClientID + 1

\* removeClient without delete(clients, id)
removeClient_noDelete(id) ==
    /\ UNCHANGED clients
    /\ closing' = IF Lookup(id) # NilChan
                  THEN [closing EXCEPT ![Lookup(id)] = @ + 1]
                  ELSE closing
    /\ UNCHANGED panicked

\* removeClient without the test ch != nil: close(nil) panics
removeClient_noNilCheck(id) ==
    /\ clients' = [i \in DOMAIN clients \ {id} |-> clients[i]]
    /\ closing' = IF Lookup(id) # NilChan
                  THEN [closing EXCEPT ![Lookup(id)] = @ + 1]
                  ELSE closing
    /\ panicked' = IF Lookup(id) = NilChan THEN "close of nil channel" ELSE panicked

\* removeClient(id), locked section: ch := clients[id]; delete(clients, id).
\* The caller then holds ch and closes it when it is not nil.
removeClient(id) ==
    /\ clients' = [i \in DOMAIN clients \ {id} |-> clients[i]]
    /\ closing' = IF Lookup(id) # NilChan
                  THEN [closing EXCEPT ![Lookup(id)] = @ + 1]
                  ELSE closing
    /\ UNCHANGED panicked

\* removeClient(id), after the unlock: close(ch). Closing a closed channel
\* panics.
closeChan(c) ==
    /\ closing' = [closing EXCEPT ![c] = @ - 1]
    /\ IF chClosed[c]
       THEN /\ panicked' = "close of closed channel"
            /\ UNCHANGED chClosed
       ELSE /\ chClosed' = [chClosed EXCEPT ![c] = TRUE]
            /\ UNCHANGED panicked

\* the channels the range loop of broadcast visits
Targets == {clients[id] : id \in DOMAIN clients}

\* broadcast over a list of every channel ever registered instead of the
\* registry
broadcast_everRegistered(msg) ==
    LET all == {c \in Chans : regAt[c] # -1}
    IN /\ chBuf' = [c \in Chans |->
                       IF c \in all /\ ~chClosed[c] /\ Len(chBuf[c]) < ChanCap
                       THEN Append(chBuf[c], msg)
                       ELSE chBuf[c]]
       /\ panicked' = IF \E c \in all : chClosed[c]
                      THEN "send on closed channel"
                      ELSE panicked
       /\ dropped' = [c \in Chans |->
                       IF c \in all /\ ~chClosed[c] /\ Len(chBuf[c]) >= ChanCap
                       THEN dropped[c] \cup {msg.seq}
                       ELSE dropped[c]]
       /\ dropLen' = [c \in Chans |->
                       IF c \in all /\ ~chClosed[c] /\ Len(chBuf[c]) >= ChanCap
                       THEN dropLen[c] \cup {Len(chBuf[c])}
                       ELSE dropLen[c]]
       /\ pubCount' = pubCount + 1

\* broadcast that makes room in a full channel by discarding its oldest message
broadcast_dropOldest(msg) ==
    /\ chBuf' = [c \in Chans |->
                    IF c \in Targets /\ ~chClosed[c]
                    THEN IF Len(chBuf[c]) < ChanCap
                         THEN Append(chBuf[c], msg)
                         ELSE Append(Tail(chBuf[c]), msg)
                    ELSE chBuf[c]]
    /\ panicked' = IF \E c \in Targets : chClosed[c]
                   THEN "send on closed channel"
                   ELSE panicked
    /\ dropped' = [c \in Chans |->
                    IF c \in Targets /\ ~chClosed[c] /\ Len(chBuf[c]) >= ChanCap
                    THEN dropped[c] \cup {Head(chBuf[c]).seq}
                    ELSE dropped[c]]
    /\ dropLen' = [c \in Chans |->
                    IF c \in Targets /\ ~chClosed[c] /\ Len(chBuf[c]) >= ChanCap
                    THEN dropLen[c] \cup {Len(chBuf[c])}
                    ELSE dropLen[c]]
    /\ pubCount' = pubCount + 1

\* broadcast(event, v), locked section: for each registered channel a
\* non-blocking send (select with default); a send on a closed channel panics
broadcast(msg) ==
    /\ chBuf' = [c \in Chans |->
                    IF c \in Targets /\ ~chClosed[c] /\ Len(chBuf[c]) < ChanCap
                    THEN Append(chBuf[c], msg)
                    ELSE chBuf[c]]
    /\ panicked' = IF \E c \in Targets : chClosed[c]
                   THEN "send on closed channel"
                   ELSE panicked
    /\ dropped' = [c \in Chans |->
                    IF c \in Targets /\ ~chClosed[c] /\ Len(chBuf[c]) >= ChanCap
                    THEN dropped[c] \cup {msg.seq}
                    ELSE dropped[c]]
    /\ dropLen' = [c \in Chans |->
                    IF c \in Targets /\ ~chClosed[c] /\ Len(chBuf[c]) >= ChanCap
                    THEN dropLen[c] \cup {Len(chBuf[c])}
                    ELSE dropLen[c]]
    /\ pubCount' = pubCount + 1

\* msg, ok := <-ch with a message buffered
recv(c) ==
    /\ chBuf[c] # <<>>
    /\ recvd' = [recvd EXCEPT ![c] = Append(@, Head(chBuf[c]))]
    /\ chBuf' = [chBuf EXCEPT ![c] = Tail(@)]

(* ----------------------- the session token service --------------------- *)
AProcs == 1..MaxAuthProcs

\* payload.Username values: empty, the administrator's
Usernames == {"", "admin"}
\* payload.Password values, as character sequences: empty, too short, valid
Passwords == {<<>>, <<1, 2>>, <<1, 2, 3>>}

\* a refresh token no response ever carried
BogusRaw == 99
\* payload.RefreshToken == ""
EmptyRaw == 0

\* sha256 + base64 of the raw token: injective, and never equal to a raw token
HashBase == 100
\* a hash that keeps its input readable: hex of the bytes themselves
sha256_identity(raw) == raw
sha256(raw) == HashBase + raw

\* bcrypt.GenerateFromPassword / CompareHashAndPassword
bcrypt(pw) == <<"bcrypt", pw>>

\* the 32 random bytes App.JWTSecret holds after getOrCreateJWTSecret
SecretBytes == 1
\* base64.StdEncoding.EncodeToString(secret), the value stored in settings
base64(secret) == <<"base64", secret>>

\* HMAC-SHA256 of the token's header and claims under a key
hmac(uid, username, exp, key) == <<"HS256", uid, username, exp, key>>

\* a string that is not a token: no claims, no signature
NoJWT == [uid |-> 0, username |-> "", exp |-> 0, sig |-> <<>>]
\* validateJWT's (nil, err)
Invalid == [uid |-> 0, username |-> ""]

\* the Authorization header: absent, or "Bearer " and a token
NoHeader == [scheme |-> "", token |-> NoJWT]
Bearer(tok) == [scheme |-> "Bearer", token |-> tok]
NoLoc == [kind |-> "none", raw |-> 0, uid |-> 0, username |-> "", password |-> <<>>,
          jwt |-> NoJWT, newRaw |-> 0, exp |-> 0]
\* a response; raw is the refresh token its request presented, hdr its
\* Authorization header
NoResp == [status |-> 0, body |-> "", token |-> NoJWT, refreshToken |-> 0, uid |-> 0,
           username |-> "", raw |-> 0, hdr |-> NoHeader]

\* generateJWT(user): claims signed with a.JWTSecret, expiring in 7 days
generateJWT(uid, username) ==
    [uid |-> uid, username |-> username, exp |-> now + AccessTTL,
     sig |-> hmac(uid, username, now + AccessTTL, JWTSecret)]

\* validateJWT that also asks for a stored session of the token's user
validateJWT_needsSession(tok) ==
    IF /\ tok.sig = hmac(tok.uid, tok.username, tok.exp, JWTSecret)
       /\ now < tok.exp
       /\ \E r \in refresh_tokens : r.user_id = tok.uid
    THEN [uid |-> tok.uid, username |-> tok.username]
    ELSE Invalid

\* validateJWT that does not check the expiry
validateJWT_noExpiry(tok) ==
    IF tok.sig = hmac(tok.uid, tok.username, tok.exp, JWTSecret)
    THEN [uid |-> tok.uid, username |-> tok.username]
    ELSE Invalid

\* validateJWT(tokenString): the claims when the signature verifies under
\* a.JWTSecret and the expiry is ahead, else an error
validateJWT(tok) ==
    IF tok.sig = hmac(tok.uid, tok.username, tok.exp, JWTSecret) /\ now < tok.exp
    THEN [uid |-> tok.uid, username |-> tok.username]
    ELSE Invalid

\* validateRefreshToken that does not compare expires_at with the clock
validateRefreshToken_noExpiry(raw) ==
    LET rows == {r \in refresh_tokens : r.token_hash = sha256(raw)}
    IN IF rows = {} THEN 0 ELSE (CHOOSE r \in rows : TRUE).user_id

\* validateRefreshToken(refreshToken): the user_id of the row with the
\* token's hash and expires_at > now, 0 (an error) when there is none
validateRefreshToken(raw) ==
    LET rows == {r \in refresh_tokens : r.token_hash = sha256(raw) /\ r.expires_at > now}
    IN IF rows = {} THEN 0 ELSE (CHOOSE r \in rows : TRUE).user_id

\* revokeRefreshToken that compares the stored hash with the raw token
revokeRefreshToken_byRaw(raw) ==
    refresh_tokens' = {r \in refresh_tokens : r.token_hash # raw}

\* revokeRefreshToken(refreshToken): DELETE ... WHERE token_hash = ?
revokeRefreshToken(raw) ==
    refresh_tokens' = {r \in refresh_tokens : r.token_hash # sha256(raw)}

\* hasAnyUsers()
hasAnyUsers == users # {}

ErrorResp(status, body) == [NoResp EXCEPT !.status = status, !.body = body]

TokenResp(l) == [status |-> 200, body |-> "tokens", token |-> l.jwt,
                 refreshToken |-> l.newRaw, uid |-> l.uid, username |-> l.username,
                 raw |-> l.raw, hdr |-> NoHeader]

\* the handler answers and returns
Finish(p, r) ==
    /\ aresp' = r
    /\ apc' = [apc EXCEPT ![p] = "idle"]
    /\ aloc' = [aloc EXCEPT ![p] = NoLoc]
    /\ UNCHANGED emitted

\* the handler answers with the token pair of its locals and returns
FinishTokens(p, l) ==
    /\ aresp' = TokenResp(l)
    /\ apc' = [apc EXCEPT ![p] = "idle"]
    /\ aloc' = [aloc EXCEPT ![p] = NoLoc]
    /\ emitted' = emitted \cup {[raw |-> l.newRaw, jwt |-> l.jwt, uid |-> l.uid,
                                 exp |-> l.exp]}

\* the handler goes on to its next database access
Goto(p, label, l) ==
    /\ apc' = [apc EXCEPT ![p] = label]
    /\ aloc' = [aloc EXCEPT ![p] = l]
    /\ UNCHANGED <<aresp, emitted>>

\* a request rejected at its first step
Reject(p, r) == Finish(p, r)

\* a request that passed its first step and goes on
Proceed(p, label, l) == Goto(p, label, l)

\* a request is served by the first idle goroutine
StartReq(p) ==
    /\ apc[p] = "idle"
    /\ \A q \in AProcs : q < p => apc[q] # "idle"
    /\ areqs < MaxAuthReqs
    /\ areqs' = areqs + 1

InitAuth ==
    /\ users = {}
    /\ nextUserID = 1
    /\ refresh_tokens = {}
    /\ JWTSecret = SecretBytes
    /\ settings = [k \in {"jwt_secret"} |-> base64(SecretBytes)]
    /\ now = 1
    /\ rng = 0
    /\ apc = [p \in AProcs |-> "idle"]
    /\ aloc = [p \in AProcs |-> NoLoc]
    /\ aresp = NoResp
    /\ rotations = {}
    /\ areqs = 0
    /\ emitted = {}

\* a browser with empty localStorage and a freshly mounted AuthProvider
InitClient ==
    /\ cpc = "idle"
    /\ auth_token = NoJWT
    /\ refresh_token = 0
    /\ token = NoJWT
    /\ refreshTokenValue = 0
    /\ user = 0
    /\ loggedOut = {}
    /\ rejected = {}

(* ------------------ the post handlers and the stream ------------------- *)
Writers == 1..MaxWriters
\* the stream handlers; handler h makes channel h
Streams == 1..MaxStreams

\* Authorization headers: absent, without the Bearer prefix, and Bearer with
\* a token that is good, expired, or signed with another secret
GoodJWT == [uid |-> 1, username |-> "admin", exp |-> 1 + AccessTTL,
            sig |-> hmac(1, "admin", 1 + AccessTTL, SecretBytes)]
ExpiredJWT == [GoodJWT EXCEPT !.exp = 1, !.sig = hmac(1, "admin", 1, SecretBytes)]
ForgedJWT == [GoodJWT EXCEPT !.sig = hmac(1, "admin", 1 + AccessTTL, SecretBytes + 1)]
BasicHeader == [scheme |-> "Basic", token |-> GoodJWT]
AuthHeaders == {NoHeader, BasicHeader, Bearer(GoodJWT), Bearer(ExpiredJWT),
                Bearer(ForgedJWT)}

\* the headers of the requests of Spec
WriteHeaders == {NoHeader, Bearer(GoodJWT)}

\* payload.Content of PUT /api/posts/{id}; a body that is not JSON
Contents == {1}
InvalidJSON == -1
\* the content of a post just created: ''
EmptyContent == 0

\* requireAuth that does not look at the error of validateJWT
requireAuth_noValidate(hdr) ==
    IF hdr.scheme = "" THEN "unauthorized"
    ELSE IF hdr.scheme # "Bearer" THEN "invalid authorization header"
    ELSE "ok"

\* requireAuth: "ok" when next(w, r) is called, else the body of the 401
requireAuth(hdr) ==
    IF hdr.scheme = "" THEN "unauthorized"
    ELSE IF hdr.scheme # "Bearer" THEN "invalid authorization header"
    ELSE IF validateJWT(hdr.token) = Invalid THEN "invalid token"
    ELSE "ok"

NoWLoc == [method |-> "none", hdr |-> NoHeader, id |-> 0, serial |-> 0, cidx |-> 0]
NoWResp == [serial |-> 0, method |-> "none", hdr |-> NoHeader, id |-> 0, status |-> 0,
            body |-> "", data |-> <<>>]

InitPosts ==
    /\ posts = <<>>
    /\ nextPostID = 1
    /\ attachments = 0
    /\ pending = {}
    /\ wpc = [w \in Writers |-> "idle"]
    /\ wloc = [w \in Writers |-> NoWLoc]
    /\ wreqs = 0
    /\ wresp = NoWResp
    /\ commitLog = <<>>
    /\ spc = [h \in Chans |-> "idle"]
    /\ sid = [h \in Chans |-> -1]
    /\ snapAt = [h \in Chans |-> -1]
    /\ pings = 0
    /\ ctxDone = [h \in Chans |-> FALSE]
    /\ firstFrame = [h \in Chans |-> "none"]

\* a write request is served by the first idle goroutine
StartWrite(w) ==
    /\ wpc[w] = "idle"
    /\ \A v \in Writers : v < w => wpc[v] # "idle"
    /\ wreqs < MaxWriteReqs

\* the serial number of the request a step starts
NewSerial == wreqs + 1

\* the handler writes its response in the step that started it, and returns
AnswerNow(w, method, hdr, id, status, body) ==
    /\ wreqs' = wreqs + 1
    /\ wresp' = [serial |-> NewSerial, method |-> method, hdr |-> hdr, id |-> id,
                 status |-> status, body |-> body, data |-> <<>>]
    /\ UNCHANGED <<wpc, wloc>>

\* a reading handler answers in the step that started it, with the posts it
\* read as the body
AnswerData(w, method, id, status, body, data) ==
    /\ wreqs' = wreqs + 1
    /\ wresp' = [serial |-> NewSerial, method |-> method, hdr |-> NoHeader, id |-> id,
                 status |-> status, body |-> body, data |-> data]
    /\ UNCHANGED <<wpc, wloc>>

\* the handler writes its response in a later step, and returns
Answer(w, status, body) ==
    /\ wresp' = [serial |-> wloc[w].serial, method |-> wloc[w].method,
                 hdr |-> wloc[w].hdr, id |-> wloc[w].id, status |-> status,
                 body |-> body, data |-> <<>>]
    /\ commitLog' = [i \in DOMAIN commitLog |->
                        IF i = wloc[w].cidx
                        THEN [commitLog[i] EXCEPT !.status = status]
                        ELSE commitLog[i]]
    /\ UNCHANGED wreqs
    /\ wpc' = [wpc EXCEPT ![w] = "idle"]
    /\ wloc' = [wloc EXCEPT ![w] = NoWLoc]

\* "go a.broadcast(event, v)": a goroutine that will run broadcast
Spawn(kind, id, content, serial, cidx) ==
    pending' = pending \cup {[kind |-> kind, id |-> id, content |-> content,
                              seq |-> serial, cidx |-> cidx]}

\* a change of table posts is committed by request serial
Commit(serial, status) ==
    commitLog' = Append(commitLog, [serial |-> serial, status |-> status])

Commits == Len(commitLog)

\* POST /api/posts on a table whose ids are not AUTOINCREMENT: the new row
\* gets the largest id in the table plus one
CreatePost_reuseRowid(w, hdr, dbOK) ==
    /\ StartWrite(w)
    /\ IF requireAuth(hdr) # "ok"
       THEN /\ AnswerNow(w, "POST /api/posts", hdr, 0, 401, requireAuth(hdr))
            /\ UNCHANGED <<posts, nextPostID, commitLog, pending>>
       ELSE IF ~dbOK
       THEN /\ AnswerNow(w, "POST /api/posts", hdr, 0, 500, "db error")
            /\ UNCHANGED <<posts, nextPostID, commitLog, pending>>
       ELSE LET id == IF DOMAIN posts = {} THEN 1
                      ELSE 1 + CHOOSE i \in DOMAIN posts : \A j \in DOMAIN posts : j <= i
            IN /\ posts' = [i \in DOMAIN posts \cup {id} |->
                               IF i = id THEN EmptyContent ELSE posts[i]]
               /\ nextPostID' = IF id >= nextPostID THEN id + 1 ELSE nextPostID
               /\ Commit(NewSerial, 201)
               /\ AnswerNow(w, "POST /api/posts", hdr, id, 201, "post")
               /\ Spawn("post-created", id, EmptyContent, NewSerial, Commits + 1)
    /\ UNCHANGED <<attachments, streamVars, hubVars, hubHist, authVars>>

\* POST /api/posts that starts the broadcast before it checks the INSERT's
\* error
CreatePost_broadcastBeforeCheck(w, hdr, dbOK) ==
    /\ StartWrite(w)
    /\ IF requireAuth(hdr) # "ok"
       THEN /\ AnswerNow(w, "POST /api/posts", hdr, 0, 401, requireAuth(hdr))
            /\ UNCHANGED <<posts, nextPostID, commitLog, pending>>
       ELSE IF ~dbOK
       THEN /\ AnswerNow(w, "POST /api/posts", hdr, 0, 500, "db error")
            /\ Spawn("post-created", 0, EmptyContent, NewSerial, 0)
            /\ UNCHANGED <<posts, nextPostID, commitLog>>
       ELSE /\ posts' = [i \in DOMAIN posts \cup {nextPostID} |->
                            IF i = nextPostID THEN EmptyContent ELSE posts[i]]
            /\ nextPostID' = nextPostID + 1
            /\ Commit(NewSerial, 201)
            /\ AnswerNow(w, "POST /api/posts", hdr, nextPostID, 201, "post")
            /\ Spawn("post-created", nextPostID, EmptyContent, NewSerial, Commits + 1)
    /\ UNCHANGED <<attachments, streamVars, hubVars, hubHist, authVars>>

\* POST /api/posts: requireAuth, INSERT INTO posts, 201, go broadcast
CreatePost(w, hdr, dbOK) ==
    /\ StartWrite(w)
    /\ IF requireAuth(hdr) # "ok"
       THEN /\ AnswerNow(w, "POST /api/posts", hdr, 0, 401, requireAuth(hdr))
            /\ UNCHANGED <<posts, nextPostID, commitLog, pending>>
       ELSE IF ~dbOK
       THEN /\ AnswerNow(w, "POST /api/posts", hdr, 0, 500, "db error")
            /\ UNCHANGED <<posts, nextPostID, commitLog, pending>>
       ELSE /\ posts' = [i \in DOMAIN posts \cup {nextPostID} |->
                            IF i = nextPostID THEN EmptyContent ELSE posts[i]]
            /\ nextPostID' = nextPostID + 1
            /\ Commit(NewSerial, 201)
            /\ AnswerNow(w, "POST /api/posts", hdr, nextPostID, 201, "post")
            /\ Spawn("post-created", nextPostID, EmptyContent, NewSerial, Commits + 1)
    /\ UNCHANGED <<attachments, streamVars, hubVars, hubHist, authVars>>

\* PUT /api/posts/{id}: requireAuth, decode, UPDATE posts (no row: no error)
UpdatePost(w, hdr, id, body, dbOK) ==
    /\ StartWrite(w)
    /\ IF requireAuth(hdr) # "ok"
       THEN /\ AnswerNow(w, "PUT /api/posts/", hdr, id, 401, requireAuth(hdr))
            /\ UNCHANGED <<posts, commitLog>>
       ELSE IF body = InvalidJSON
       THEN /\ AnswerNow(w, "PUT /api/posts/", hdr, id, 400, "invalid json")
            /\ UNCHANGED <<posts, commitLog>>
       ELSE IF ~dbOK
       THEN /\ AnswerNow(w, "PUT /api/posts/", hdr, id, 500, "db error")
            /\ UNCHANGED <<posts, commitLog>>
       ELSE /\ IF id \in DOMAIN posts
               THEN /\ posts' = [posts EXCEPT ![id] = body]
                    /\ Commit(NewSerial, 0)
               ELSE UNCHANGED <<posts, commitLog>>
            /\ wpc' = [wpc EXCEPT ![w] = "put_read"]
            /\ wloc' = [wloc EXCEPT ![w] =
                          [method |-> "PUT /api/posts/", hdr |-> hdr, id |-> id,
                           serial |-> NewSerial,
                           cidx |-> IF id \in DOMAIN posts THEN Commits + 1 ELSE 0]]
            /\ wreqs' = wreqs + 1
            /\ UNCHANGED wresp
    /\ UNCHANGED <<nextPostID, attachments, pending>>
    /\ UNCHANGED <<streamVars, hubVars, hubHist, authVars>>

\* PUT /api/posts/{id}: getPost, then 404, or 200 and go broadcast
UpdateRead(w, dbOK) ==
    /\ wpc[w] = "put_read"
    /\ LET l == wloc[w]
       IN  IF ~dbOK
           THEN /\ Answer(w, 500, "db error")
                /\ UNCHANGED pending
           ELSE IF l.id \notin DOMAIN posts
           THEN /\ Answer(w, 404, "not found")
                /\ UNCHANGED pending
           ELSE /\ Answer(w, 200, "post")
                /\ Spawn("post-updated", l.id, posts[l.id], l.serial, l.cidx)
    /\ UNCHANGED postDB
    /\ UNCHANGED <<streamVars, hubVars, hubHist, authVars>>

\* DELETE /api/posts/{id}: requireAuth, DELETE FROM posts (no row: no
\* error), 204, go broadcast
DeletePost(w, hdr, id, dbOK) ==
    /\ StartWrite(w)
    /\ IF requireAuth(hdr) # "ok"
       THEN /\ AnswerNow(w, "DELETE /api/posts/", hdr, id, 401, requireAuth(hdr))
            /\ UNCHANGED <<posts, commitLog, pending>>
       ELSE IF ~dbOK
       THEN /\ AnswerNow(w, "DELETE /api/posts/", hdr, id, 500, "db error")
            /\ UNCHANGED <<posts, commitLog, pending>>
       ELSE /\ IF id \in DOMAIN posts
               THEN /\ posts' = [i \in DOMAIN posts \ {id} |-> posts[i]]
                    /\ Commit(NewSerial, 204)
               ELSE UNCHANGED <<posts, commitLog>>
            /\ AnswerNow(w, "DELETE /api/posts/", hdr, id, 204, "")
            /\ Spawn("post-deleted", id, EmptyContent, NewSerial,
                     IF id \in DOMAIN posts THEN Commits + 1 ELSE 0)
    /\ UNCHANGED <<nextPostID, attachments>>
    /\ UNCHANGED <<streamVars, hubVars, hubHist, authVars>>

\* payload.Key and payload.Value of PUT /api/settings
SettingKeys == {"", "theme", "jwt_secret"}
SettingValues == {base64(SecretBytes + 1)}
\* a body of PUT /api/settings or PUT /api/about that is not JSON
NotJSON == <<"not json">>
\* payload.Content of PUT /api/about
AboutContents == {<<"text", 1>>}

\* PUT /api/settings: requireAuth, decode, key required, INSERT OR REPLACE
PutSettings(w, hdr, key, value, dbOK) ==
    /\ StartWrite(w)
    /\ IF requireAuth(hdr) # "ok"
       THEN /\ AnswerNow(w, "PUT /api/settings", hdr, 0, 401, requireAuth(hdr))
            /\ UNCHANGED settings
       ELSE IF value = NotJSON
       THEN /\ AnswerNow(w, "PUT /api/settings", hdr, 0, 400, "invalid json")
            /\ UNCHANGED settings
       ELSE IF key = ""
       THEN /\ AnswerNow(w, "PUT /api/settings", hdr, 0, 400, "key is required")
            /\ UNCHANGED settings
       ELSE IF ~dbOK
       THEN /\ AnswerNow(w, "PUT /api/settings", hdr, 0, 500, "db error")
            /\ UNCHANGED settings
       ELSE /\ settings' = [k \in DOMAIN settings \cup {key} |->
                               IF k = key THEN value ELSE settings[k]]
            /\ AnswerNow(w, "PUT /api/settings", hdr, 0, 200, "setting")
    /\ UNCHANGED <<postDB, pending, commitLog, streamVars, hubVars, hubHist>>
    /\ UNCHANGED <<users, nextUserID, refresh_tokens, JWTSecret, now, rng, authProc,
                   clientVars>>

\* GET /api/settings, no requireAuth: with ?key= the value of that row ("" on
\* sql.ErrNoRows), without it every row of table settings
GetSettings(w, hdr, key, dbOK) ==
    /\ StartWrite(w)
    /\ wreqs' = wreqs + 1
    /\ wresp' =
          IF ~dbOK
          THEN [serial |-> NewSerial, method |-> "GET /api/settings", hdr |-> hdr,
                id |-> 0, status |-> 500, body |-> "db error", data |-> <<>>]
          ELSE IF key # ""
          THEN [serial |-> NewSerial, method |-> "GET /api/settings", hdr |-> hdr,
                id |-> 0, status |-> 200, body |-> "value",
                data |-> [k \in {"value"} |->
                            IF key \in DOMAIN settings THEN settings[key] ELSE <<>>]]
          ELSE [serial |-> NewSerial, method |-> "GET /api/settings", hdr |-> hdr,
                id |-> 0, status |-> 200, body |-> "settings", data |-> settings]
    /\ UNCHANGED <<wpc, wloc>>
    /\ UNCHANGED <<postDB, pending, commitLog, streamVars, hubVars, hubHist, authVars>>

\* PUT /api/about: requireAuth, decode, INSERT OR REPLACE 'aboutContent'
PutAbout(w, hdr, content, dbOK) ==
    /\ StartWrite(w)
    /\ IF requireAuth(hdr) # "ok"
       THEN /\ AnswerNow(w, "PUT /api/about", hdr, 0, 401, requireAuth(hdr))
            /\ UNCHANGED settings
       ELSE IF content = NotJSON
       THEN /\ AnswerNow(w, "PUT /api/about", hdr, 0, 400, "invalid json")
            /\ UNCHANGED settings
       ELSE IF ~dbOK
       THEN /\ AnswerNow(w, "PUT /api/about", hdr, 0, 500, "db error")
            /\ UNCHANGED settings
       ELSE /\ settings' = [k \in DOMAIN settings \cup {"aboutContent"} |->
                               IF k = "aboutContent" THEN content ELSE settings[k]]
            /\ AnswerNow(w, "PUT /api/about", hdr, 0, 200, "content")
    /\ UNCHANGED <<postDB, pending, commitLog, streamVars, hubVars, hubHist>>
    /\ UNCHANGED <<users, nextUserID, refresh_tokens, JWTSecret, now, rng, authProc,
                   clientVars>>

\* the file part of POST /api/uploads: absent, not an image, an image
Files == {"none", "text/plain", "image/png"}

isValidImageMimeType(mimeType) ==
    mimeType \in {"image/jpeg", "image/jpg", "image/png", "image/gif", "image/webp"}

\* POST /api/uploads: requireAuth, the form's file, its mime type,
\* saveAttachment (the file and its row; neither when it fails), 201
Upload(w, hdr, file, dbOK) ==
    /\ StartWrite(w)
    /\ IF requireAuth(hdr) # "ok"
       THEN /\ AnswerNow(w, "POST /api/uploads", hdr, 0, 401, requireAuth(hdr))
            /\ UNCHANGED attachments
       ELSE IF file = "none"
       THEN /\ AnswerNow(w, "POST /api/uploads", hdr, 0, 400, "no file provided")
            /\ UNCHANGED attachments
       ELSE IF ~isValidImageMimeType(file)
       THEN /\ AnswerNow(w, "POST /api/uploads", hdr, 0, 400, "invalid file type")
            /\ UNCHANGED attachments
       ELSE IF ~dbOK
       THEN /\ AnswerNow(w, "POST /api/uploads", hdr, 0, 500, "failed to save file")
            /\ UNCHANGED attachments
       ELSE /\ attachments' = attachments + 1
            /\ AnswerNow(w, "POST /api/uploads", hdr, attachments + 1, 201, "attachment")
    /\ UNCHANGED <<posts, nextPostID, pending, commitLog>>
    /\ UNCHANGED <<streamVars, hubVars, hubHist, authVars>>

\* GET /api/posts: the SELECT of all posts, encoded as the list
ListPosts(w, dbOK) ==
    /\ StartWrite(w)
    /\ IF ~dbOK
       THEN AnswerData(w, "GET /api/posts", 0, 500, "db error", <<>>)
       ELSE AnswerData(w, "GET /api/posts", 0, 200, "list", posts)
    /\ UNCHANGED <<postDB, pending, commitLog>>
    /\ UNCHANGED <<streamVars, hubVars, hubHist, authVars>>

\* GET /api/posts/{id}: getPost(idStr), 404 on sql.ErrNoRows
GetPost(w, id, dbOK) ==
    /\ StartWrite(w)
    /\ IF ~dbOK
       THEN AnswerData(w, "GET /api/posts/", id, 500, "db error", <<>>)
       ELSE IF id \notin DOMAIN posts
       THEN AnswerData(w, "GET /api/posts/", id, 404, "404 page not found", <<>>)
       ELSE AnswerData(w, "GET /api/posts/", id, 200, "post",
                       [i \in {id} |-> posts[i]])
    /\ UNCHANGED <<postDB, pending, commitLog>>
    /\ UNCHANGED <<streamVars, hubVars, hubHist, authVars>>

\* a broadcast goroutine runs
RunBroadcast(m) ==
    /\ panicked = "none"
    /\ m \in pending
    /\ pending' = pending \ {m}
    /\ broadcast(m)
    /\ UNCHANGED <<clients, nextClientID, chClosed, closing>>
    /\ UNCHANGED <<regAt, remAt, recvd, removeCalls>>
    /\ UNCHANGED <<postDB, wpc, wloc, wreqs, wresp, commitLog>>
    /\ UNCHANGED <<streamVars, authVars>>

\* GET /api/posts/stream: make(chan string, 16), addClient, defer removeClient
StreamOpen(h) ==
    /\ panicked = "none"
    /\ spc[h] = "idle"
    /\ \A g \in Streams : g < h => spc[g] # "idle"
    /\ addClient(h)
    /\ sid' = [sid EXCEPT ![h] = nextClientID]
    /\ spc' = [spc EXCEPT ![h] = "snapshot"]
    /\ regAt' = [regAt EXCEPT ![h] = pubCount]
    /\ UNCHANGED <<chBuf, chClosed, closing, panicked>>
    /\ UNCHANGED <<pubCount, remAt, recvd, dropped, dropLen, removeCalls>>
    /\ UNCHANGED <<snapAt, pings>>
    /\ UNCHANGED <<postDB, writerVars, authVars>>
    /\ UNCHANGED ctxDone
    /\ UNCHANGED firstFrame

\* w.Write of a frame: the first one is remembered
Wrote(h, frame) ==
    firstFrame' = [firstFrame EXCEPT ![h] = IF @ = "none" THEN frame ELSE @]

\* the stream handler's snapshot query; the snapshot frame is written only
\* when the query returned no error
StreamSnapshot(h, dbOK) ==
    /\ spc[h] = "snapshot"
    /\ spc' = [spc EXCEPT ![h] = "loop"]
    /\ IF dbOK
       THEN /\ snapAt' = [snapAt EXCEPT ![h] = Commits]
            /\ Wrote(h, "snapshot")
       ELSE UNCHANGED <<snapAt, firstFrame>>
    /\ UNCHANGED <<sid, pings>>
    /\ UNCHANGED <<postDB, writerVars, hubVars, hubHist, authVars>>
    /\ UNCHANGED ctxDone

\* the stream handler's loop: case msg, ok := <-ch with a message buffered
StreamRecv(h) ==
    /\ spc[h] = "loop"
    /\ recv(h)
    /\ UNCHANGED <<spc, sid, snapAt, pings>>
    /\ UNCHANGED <<clients, nextClientID, chClosed, closing, panicked>>
    /\ UNCHANGED <<pubCount, regAt, remAt, dropped, dropLen, removeCalls>>
    /\ UNCHANGED <<postDB, writerVars, authVars>>
    /\ UNCHANGED ctxDone
    /\ Wrote(h, "message")

\* the stream handler's loop: case <-ticker.C
StreamPing(h) ==
    /\ spc[h] = "loop"
    /\ pings < MaxPings
    /\ pings' = pings + 1
    /\ UNCHANGED <<spc, sid, snapAt>>
    /\ UNCHANGED <<postDB, writerVars, hubVars, hubHist, authVars>>
    /\ UNCHANGED ctxDone
    /\ Wrote(h, "ping")

\* a stream handler that returns without its deferred removeClient
StreamReturn_noDefer(h) ==
    /\ panicked = "none"
    /\ spc[h] = "loop"
    /\ spc' = [spc EXCEPT ![h] = "done"]
    /\ UNCHANGED <<hubVars, hubHist>>
    /\ UNCHANGED <<sid, snapAt, pings>>
    /\ UNCHANGED <<postDB, writerVars, authVars>>
    /\ UNCHANGED ctxDone
    /\ UNCHANGED firstFrame

\* the stream handler's loop: case <-ctx.Done() (or the channel is closed);
\* the handler returns and the deferred removeClient(id) runs its locked
\* section
StreamReturn(h) ==
    /\ panicked = "none"
    /\ spc[h] = "loop"
    /\ removeClient(sid[h])
    /\ removeCalls' = [removeCalls EXCEPT ![sid[h]] = @ + 1]
    /\ remAt' = [c \in Chans |->
                    IF c = Lookup(sid[h]) /\ remAt[c] = -1 THEN pubCount ELSE remAt[c]]
    /\ spc' = [spc EXCEPT ![h] = "closing"]
    /\ UNCHANGED <<nextClientID, chBuf, chClosed>>
    /\ UNCHANGED <<pubCount, regAt, recvd, dropped, dropLen>>
    /\ UNCHANGED <<sid, snapAt, pings>>
    /\ UNCHANGED <<postDB, writerVars, authVars>>
    /\ UNCHANGED ctxDone
    /\ UNCHANGED firstFrame

\* the deferred removeClient(id), after the unlock: close(ch) when ch != nil
StreamClose(h) ==
    /\ panicked = "none"
    /\ spc[h] = "closing"
    /\ spc' = [spc EXCEPT ![h] = "done"]
    /\ IF closing[h] > 0
       THEN closeChan(h)
       ELSE UNCHANGED <<closing, chClosed, panicked>>
    /\ UNCHANGED <<clients, nextClientID, chBuf>>
    /\ UNCHANGED hubHist
    /\ UNCHANGED <<sid, snapAt, pings>>
    /\ UNCHANGED <<postDB, writerVars, authVars>>
    /\ UNCHANGED ctxDone
    /\ UNCHANGED firstFrame


\* the state NewApp leaves: schema created, secret stored, no client
Init ==
    /\ InitAuth
    /\ InitClient
    /\ InitPosts
    /\ clients = <<>>
    /\ nextClientID = 0
    /\ chBuf = [c \in Chans |-> <<>>]
    /\ chClosed = [c \in Chans |-> FALSE]
    /\ closing = [c \in Chans |-> 0]
    /\ panicked = "none"
    /\ pubCount = 0
    /\ regAt = [c \in Chans |-> -1]
    /\ remAt = [c \in Chans |-> -1]
    /\ recvd = [c \in Chans |-> <<>>]
    /\ dropped = [c \in Chans |-> {}]
    /\ dropLen = [c \in Chans |-> {}]
    /\ removeCalls = [id \in 0..MaxChans |-> 0]

\* the ids a request can name: the posts created so far and one more
PostIds == 1..nextPostID

StreamNext ==
    \/ \E m \in pending : RunBroadcast(m)
    \/ \E h \in Streams : StreamOpen(h)
    \/ \E h \in Streams : StreamSnapshot(h, TRUE)
    \/ \E h \in Streams : StreamRecv(h)
    \/ \E h \in Streams : StreamPing(h)
    \/ \E h \in Streams : StreamReturn(h)
    \/ \E h \in Streams : StreamClose(h)

\* every database statement succeeds
Next ==
    \/ \E w \in Writers, hdr \in WriteHeaders : CreatePost(w, hdr, TRUE)
    \/ \E w \in Writers, hdr \in WriteHeaders, id \in PostIds,
          body \in Contents \cup {InvalidJSON} : UpdatePost(w, hdr, id, body, TRUE)
    \/ \E w \in Writers : UpdateRead(w, TRUE)
    \/ \E w \in Writers, hdr \in WriteHeaders, id \in PostIds : DeletePost(w, hdr, id, TRUE)
    \/ StreamNext

Spec == Init /\ [][Next]_vars

(* ----- SpecCrud: the post endpoints, reads included, storage errors ----- *)
NextCrud ==
    \/ \E w \in Writers, hdr \in WriteHeaders, ok \in BOOLEAN : CreatePost(w, hdr, ok)
    \/ \E w \in Writers, hdr \in WriteHeaders, id \in PostIds,
          body \in Contents \cup {InvalidJSON}, ok \in BOOLEAN :
            UpdatePost(w, hdr, id, body, ok)
    \/ \E w \in Writers, ok \in BOOLEAN : UpdateRead(w, ok)
    \/ \E w \in Writers, hdr \in WriteHeaders, id \in PostIds, ok \in BOOLEAN :
            DeletePost(w, hdr, id, ok)
    \/ \E w \in Writers, ok \in BOOLEAN : ListPosts(w, ok)
    \/ \E w \in Writers, id \in PostIds, ok \in BOOLEAN : GetPost(w, id, ok)

SpecCrud == Init /\ [][NextCrud]_vars

(* ----- SpecSettings: the settings endpoints, any header ----- *)
NextSettings ==
    \/ \E w \in Writers, hdr \in AuthHeaders, key \in SettingKeys, ok \in BOOLEAN :
            GetSettings(w, hdr, key, ok)
    \/ \E w \in Writers, hdr \in AuthHeaders, key \in SettingKeys,
          value \in SettingValues \cup {NotJSON}, ok \in BOOLEAN :
            PutSettings(w, hdr, key, value, ok)
    \/ \E w \in Writers, hdr \in AuthHeaders,
          content \in AboutContents \cup {NotJSON}, ok \in BOOLEAN :
            PutAbout(w, hdr, content, ok)

SpecSettings == Init /\ [][NextSettings]_vars

(* ----- SpecWrite: the writing endpoints, any header, storage errors ----- *)
NextWrite ==
    \/ \E w \in Writers, hdr \in AuthHeaders, ok \in BOOLEAN : CreatePost(w, hdr, ok)
    \/ \E w \in Writers, hdr \in AuthHeaders, id \in PostIds,
          body \in Contents \cup {InvalidJSON}, ok \in BOOLEAN :
            UpdatePost(w, hdr, id, body, ok)
    \/ \E w \in Writers, ok \in BOOLEAN : UpdateRead(w, ok)
    \/ \E w \in Writers, hdr \in AuthHeaders, id \in PostIds, ok \in BOOLEAN :
            DeletePost(w, hdr, id, ok)
    \/ \E w \in Writers, hdr \in AuthHeaders, key \in SettingKeys,
          value \in SettingValues \cup {NotJSON}, ok \in BOOLEAN :
            PutSettings(w, hdr, key, value, ok)
    \/ \E w \in Writers, hdr \in AuthHeaders,
          content \in AboutContents \cup {NotJSON}, ok \in BOOLEAN :
            PutAbout(w, hdr, content, ok)
    \/ \E w \in Writers, hdr \in AuthHeaders, file \in Files, ok \in BOOLEAN :
            Upload(w, hdr, file, ok)
    \/ \E m \in pending : RunBroadcast(m)

SpecWrite == Init /\ [][NextWrite]_vars

\* POST /api/setup/register up to createUser's hasAnyUsers query
Register(p, u, pw) ==
    /\ StartReq(p)
    /\ IF u = "" \/ pw = <<>>
       THEN Reject(p, ErrorResp(400, "username and password are required"))
       ELSE IF Len(pw) < MinPasswordLen
       THEN Reject(p, ErrorResp(400, "password must be at least 3 characters"))
       ELSE IF hasAnyUsers
       THEN Reject(p, ErrorResp(403, "registration not allowed"))
       ELSE Proceed(p, "reg_insert", [NoLoc EXCEPT !.kind = "register", !.username = u,
                                                !.password = pw])
    /\ UNCHANGED <<authDB, JWTSecret, now, rng, rotations>>
    /\ UNCHANGED <<hubVars, hubHist, postVars>>

\* createUser's INSERT INTO users (username is UNIQUE), then generateJWT
RegInsert(p) ==
    /\ apc[p] = "reg_insert"
    /\ IF \E r \in users : r.username = aloc[p].username
       THEN /\ Finish(p, ErrorResp(500, "failed to create user"))
            /\ UNCHANGED <<users, nextUserID>>
       ELSE /\ users' = users \cup {[id |-> nextUserID, username |-> aloc[p].username,
                                     password_hash |-> bcrypt(aloc[p].password)]}
            /\ nextUserID' = nextUserID + 1
            /\ Goto(p, "crt_sweep",
                    [aloc[p] EXCEPT !.uid = nextUserID,
                                    !.jwt = generateJWT(nextUserID, aloc[p].username)])
    /\ UNCHANGED <<refresh_tokens, settings, JWTSecret, now, rng, rotations, areqs>>
    /\ UNCHANGED <<hubVars, hubHist, postVars>>

\* POST /api/auth/login: authenticateUser, then generateJWT
Login(p, u, pw) ==
    /\ StartReq(p)
    /\ LET rows == {r \in users : r.username = u /\ r.password_hash = bcrypt(pw)}
       IN IF rows = {}
          THEN Reject(p, ErrorResp(401, "invalid credentials"))
          ELSE LET r == CHOOSE r \in rows : TRUE
               IN Proceed(p, "crt_sweep",
                       [NoLoc EXCEPT !.kind = "login", !.uid = r.id, !.username = u,
                                     !.jwt = generateJWT(r.id, u)])
    /\ UNCHANGED <<authDB, JWTSecret, now, rng, rotations>>
    /\ UNCHANGED <<hubVars, hubHist, postVars>>

\* a refresh handler that tells an expired token from an unknown one
Refresh_tellsExpired(p, raw, dbOK) ==
    /\ StartReq(p)
    /\ IF raw = EmptyRaw
       THEN Reject(p, ErrorResp(400, "refresh token required"))
       ELSE IF \E r \in refresh_tokens : r.token_hash = sha256(raw) /\ r.expires_at <= now
       THEN Reject(p, [ErrorResp(401, "refresh token expired") EXCEPT !.raw = raw])
       ELSE IF ~dbOK \/ validateRefreshToken(raw) = 0
       THEN Reject(p, [ErrorResp(401, "invalid refresh token") EXCEPT !.raw = raw])
       ELSE Proceed(p, "ref_getuser", [NoLoc EXCEPT !.kind = "refresh", !.raw = raw,
                                                 !.uid = validateRefreshToken(raw)])
    /\ UNCHANGED <<authDB, JWTSecret, now, rng, rotations>>
    /\ UNCHANGED <<hubVars, hubHist, postVars>>

\* POST /api/auth/refresh up to validateRefreshToken
Refresh(p, raw, dbOK) ==
    /\ StartReq(p)
    /\ IF raw = EmptyRaw
       THEN Reject(p, ErrorResp(400, "refresh token required"))
       ELSE IF ~dbOK \/ validateRefreshToken(raw) = 0
       THEN Reject(p, [ErrorResp(401, "invalid refresh token") EXCEPT !.raw = raw])
       ELSE Proceed(p, "ref_getuser", [NoLoc EXCEPT !.kind = "refresh", !.raw = raw,
                                                 !.uid = validateRefreshToken(raw)])
    /\ UNCHANGED <<authDB, JWTSecret, now, rng, rotations>>
    /\ UNCHANGED <<hubVars, hubHist, postVars>>

\* the refresh handler's SELECT of the user, then generateJWT
RefGetUser(p, dbOK) ==
    /\ apc[p] = "ref_getuser"
    /\ LET rows == {r \in users : r.id = aloc[p].uid}
       IN IF ~dbOK \/ rows = {}
          THEN Finish(p, [ErrorResp(401, "user not found") EXCEPT !.raw = aloc[p].raw])
          ELSE LET r == CHOOSE r \in rows : TRUE
               IN Goto(p, "crt_sweep",
                       [aloc[p] EXCEPT !.username = r.username,
                                       !.jwt = generateJWT(r.id, r.username)])
    /\ UNCHANGED <<authDB, JWTSecret, now, rng, rotations, areqs>>
    /\ UNCHANGED <<hubVars, hubHist, postVars>>

\* createRefreshToken whose DELETE removes every row of the user
CrtSweep_allOfUser(p, dbOK) ==
    /\ apc[p] = "crt_sweep"
    /\ rng' = rng + 1
    /\ refresh_tokens' = IF dbOK
                         THEN {r \in refresh_tokens : r.user_id # aloc[p].uid}
                         ELSE refresh_tokens
    /\ Goto(p, "crt_insert", [aloc[p] EXCEPT !.newRaw = rng + 1])
    /\ UNCHANGED <<users, nextUserID, settings, JWTSecret, now, rotations, areqs>>
    /\ UNCHANGED <<hubVars, hubHist, postVars>>

\* createRefreshToken: rand.Read, then DELETE of the user's expired rows
CrtSweep(p, dbOK) ==
    /\ apc[p] = "crt_sweep"
    /\ rng' = rng + 1
    /\ refresh_tokens' = IF dbOK
                         THEN {r \in refresh_tokens :
                                  ~(r.user_id = aloc[p].uid /\ r.expires_at < now)}
                         ELSE refresh_tokens
    /\ Goto(p, "crt_insert", [aloc[p] EXCEPT !.newRaw = rng + 1])
    /\ UNCHANGED <<users, nextUserID, settings, JWTSecret, now, rotations, areqs>>
    /\ UNCHANGED <<hubVars, hubHist, postVars>>

\* createRefreshToken: INSERT INTO refresh_tokens (token_hash is UNIQUE);
\* register and login then answer with the token pair
CrtInsert(p, dbOK) ==
    /\ apc[p] = "crt_insert"
    /\ IF ~dbOK \/ \E r \in refresh_tokens : r.token_hash = sha256(aloc[p].newRaw)
       THEN /\ Finish(p, ErrorResp(500, "failed to generate refresh token"))
            /\ UNCHANGED refresh_tokens
       ELSE /\ refresh_tokens' = refresh_tokens \cup
                    {[user_id |-> aloc[p].uid, token_hash |-> sha256(aloc[p].newRaw),
                      expires_at |-> now + RefreshTTL, created_at |-> now]}
            /\ IF aloc[p].kind = "refresh"
               THEN Goto(p, "ref_revoke", [aloc[p] EXCEPT !.exp = now + RefreshTTL])
               ELSE FinishTokens(p, [aloc[p] EXCEPT !.exp = now + RefreshTTL])
    /\ UNCHANGED <<users, nextUserID, settings, JWTSecret, now, rng, rotations, areqs>>
    /\ UNCHANGED <<hubVars, hubHist, postVars>>

\* the refresh handler's revokeRefreshToken(payload.RefreshToken) and answer
RefRevoke(p, dbOK) ==
    /\ apc[p] = "ref_revoke"
    /\ IF dbOK THEN revokeRefreshToken(aloc[p].raw) ELSE UNCHANGED refresh_tokens
    /\ rotations' = rotations \cup {[old |-> aloc[p].raw, new |-> aloc[p].newRaw,
                                     uid |-> aloc[p].uid, exp |-> aloc[p].exp]}
    /\ FinishTokens(p, aloc[p])
    /\ UNCHANGED <<users, nextUserID, settings, JWTSecret, now, rng, areqs>>
    /\ UNCHANGED <<hubVars, hubHist, postVars>>

\* GET /api/auth/validate: the header, validateJWT, the claims
Validate(p, hdr) ==
    /\ StartReq(p)
    /\ IF hdr.scheme = ""
       THEN Reject(p, [ErrorResp(401, "unauthorized") EXCEPT !.hdr = hdr])
       ELSE IF hdr.scheme # "Bearer"
       THEN Reject(p, [ErrorResp(401, "invalid authorization header") EXCEPT !.hdr = hdr])
       ELSE IF validateJWT(hdr.token) = Invalid
       THEN Reject(p, [ErrorResp(401, "invalid token") EXCEPT !.hdr = hdr])
       ELSE Finish(p, [NoResp EXCEPT !.status = 200, !.body = "valid",
                                     !.uid = validateJWT(hdr.token).uid,
                                     !.username = validateJWT(hdr.token).username,
                                     !.hdr = hdr])
    /\ UNCHANGED <<authDB, JWTSecret, now, rng, rotations>>
    /\ UNCHANGED <<hubVars, hubHist, postVars>>

\* the instants at which the clock is read: the start, a day later, and the
\* day on which the refresh tokens of the second instant expire (those of
\* the first expired the day before, the access tokens of both long before)
Instants == {1, 2, 2 + RefreshTTL}

\* the clock advances to a later instant
Tick(t) ==
    /\ t > now
    /\ now' = t
    /\ UNCHANGED <<authDB, JWTSecret, rng, authProc>>
    /\ UNCHANGED <<hubVars, hubHist, postVars>>

\* the refresh tokens a client can present: any value a response carried so
\* far, the empty string, and a value never issued
RawInputs == (1..rng) \cup {EmptyRaw, BogusRaw}

\* a key that is not a.JWTSecret
OtherSecret == SecretBytes + 1

\* the token with its signature made under another key
Resigned(tok, key) == [tok EXCEPT !.sig = hmac(tok.uid, tok.username, tok.exp, key)]

\* the access tokens a client can present: any token a response carried so
\* far, such a token signed with another key, and a string that is no token
JWTInputs ==
    {e.jwt : e \in emitted} \cup {Resigned(e.jwt, OtherSecret) : e \in emitted} \cup {NoJWT}

HeaderInputs == {NoHeader} \cup {Bearer(t) : t \in JWTInputs}

NextAuth ==
    \/ \E p \in AProcs, u \in Usernames, pw \in Passwords : Register(p, u, pw) /\ UNCHANGED clientVars
    \/ \E p \in AProcs : RegInsert(p) /\ UNCHANGED clientVars
    \/ \E p \in AProcs, u \in Usernames, pw \in Passwords : Login(p, u, pw) /\ UNCHANGED clientVars
    \/ \E p \in AProcs, raw \in RawInputs : Refresh(p, raw, TRUE) /\ UNCHANGED clientVars
    \/ \E p \in AProcs : RefGetUser(p, TRUE) /\ UNCHANGED clientVars
    \/ \E p \in AProcs : CrtSweep(p, TRUE) /\ UNCHANGED clientVars
    \/ \E p \in AProcs : CrtInsert(p, TRUE) /\ UNCHANGED clientVars
    \/ \E p \in AProcs : RefRevoke(p, TRUE) /\ UNCHANGED clientVars
    \/ \E p \in AProcs, hdr \in HeaderInputs : Validate(p, hdr) /\ UNCHANGED clientVars
    \/ \E t \in Instants : Tick(t) /\ UNCHANGED clientVars

SpecAuth == Init /\ [][NextAuth]_vars

\* ---------------------------------------------------------------------------
\* The browser: AuthProvider.tsx over the auth endpoints.  One AuthProvider
\* with one fetch outstanding at a time; a fetch is the first step of the
\* handler it calls, and its continuation runs once the handler has answered.

\* what a step of the browser alone leaves as it is
ServerVars == <<authDB, JWTSecret, now, rng, authProc, hubVars, hubHist, postVars>>

\* the handler of the outstanding fetch has answered
Answered == \A p \in AProcs : apc[p] = "idle"

\* res.ok
Ok(status) == status >= 200 /\ status <= 299

\* setToken, setUser, setRefreshTokenValue and the two localStorage.setItem
StoreTokens ==
    /\ token' = aresp.token
    /\ user' = aresp.uid
    /\ refreshTokenValue' = aresp.refreshToken
    /\ auth_token' = aresp.token
    /\ refresh_token' = aresp.refreshToken

\* the two localStorage.removeItem
RemoveItems ==
    /\ auth_token' = NoJWT
    /\ refresh_token' = 0

\* login: the fetch of /api/auth/login
login(u, pw) ==
    /\ cpc = "idle"
    /\ \E p \in AProcs : Login(p, u, pw)
    /\ cpc' = "login"
    /\ UNCHANGED <<auth_token, refresh_token, token, refreshTokenValue, user, loggedOut,
                   rejected>>

\* register: the fetch of /api/setup/register
register(u, pw) ==
    /\ cpc = "idle"
    /\ \E p \in AProcs : Register(p, u, pw)
    /\ cpc' = "register"
    /\ UNCHANGED <<auth_token, refresh_token, token, refreshTokenValue, user, loggedOut,
                   rejected>>

\* login and register after the fetch: the tokens are kept on res.ok only
loginThen ==
    /\ cpc \in {"login", "register"}
    /\ Answered
    /\ cpc' = "idle"
    /\ IF Ok(aresp.status)
       THEN StoreTokens
       ELSE UNCHANGED <<auth_token, refresh_token, token, refreshTokenValue, user>>
    /\ UNCHANGED <<loggedOut, rejected>>
    /\ UNCHANGED ServerVars

\* logout: the state and localStorage are cleared; no request is sent
logout ==
    /\ cpc = "idle"
    /\ token' = NoJWT
    /\ user' = 0
    /\ refreshTokenValue' = 0
    /\ RemoveItems
    /\ loggedOut' = loggedOut \cup ({refreshTokenValue, refresh_token} \ {0})
    /\ UNCHANGED <<cpc, rejected>>
    /\ UNCHANGED ServerVars

\* refreshToken: the manual refresh, sent when refreshTokenValue is set
refreshToken ==
    /\ cpc = "idle"
    /\ refreshTokenValue # 0
    /\ \E p \in AProcs : Refresh(p, refreshTokenValue, TRUE)
    /\ cpc' = "refreshToken"
    /\ UNCHANGED <<auth_token, refresh_token, token, refreshTokenValue, user, loggedOut,
                   rejected>>

\* refreshToken after the fetch: a response that is not ok is only logged
refreshTokenThen ==
    /\ cpc = "refreshToken"
    /\ Answered
    /\ cpc' = "idle"
    /\ IF Ok(aresp.status)
       THEN StoreTokens /\ UNCHANGED rejected
       ELSE /\ rejected' = rejected \cup {refreshTokenValue}
            /\ UNCHANGED <<auth_token, refresh_token, token, refreshTokenValue, user>>
    /\ UNCHANGED loggedOut
    /\ UNCHANGED ServerVars

\* the effect run when the page is loaded: the state starts empty, and a
\* saved auth_token is sent to /api/auth/validate
useEffect ==
    /\ cpc = "idle"
    /\ token' = NoJWT
    /\ user' = 0
    /\ refreshTokenValue' = 0
    /\ IF auth_token # NoJWT
       THEN /\ \E p \in AProcs : Validate(p, Bearer(auth_token))
            /\ cpc' = "validate"
       ELSE UNCHANGED <<cpc, ServerVars>>
    /\ UNCHANGED <<auth_token, refresh_token, loggedOut, rejected>>

\* the effect after the fetch: data.valid restores the saved tokens;
\* otherwise attemptRefresh(savedRefreshToken) sends the saved refresh token,
\* and without one both items are removed
useEffectThen ==
    /\ cpc = "validate"
    /\ Answered
    /\ IF aresp.status = 200
       THEN /\ token' = auth_token
            /\ user' = aresp.uid
            /\ refreshTokenValue' = refresh_token
            /\ cpc' = "idle"
            /\ UNCHANGED <<auth_token, refresh_token, ServerVars>>
       ELSE IF refresh_token # 0
       THEN /\ \E p \in AProcs : Refresh(p, refresh_token, TRUE)
            /\ cpc' = "attemptRefresh"
            /\ UNCHANGED <<auth_token, refresh_token, token, refreshTokenValue, user>>
       ELSE /\ RemoveItems
            /\ cpc' = "idle"
            /\ UNCHANGED <<token, refreshTokenValue, user, ServerVars>>
    /\ UNCHANGED <<loggedOut, rejected>>

\* attemptRefresh after the fetch: a response that is not ok removes both
\* items from localStorage
attemptRefreshThen ==
    /\ cpc = "attemptRefresh"
    /\ Answered
    /\ cpc' = "idle"
    /\ IF Ok(aresp.status)
       THEN StoreTokens /\ UNCHANGED rejected
       ELSE /\ RemoveItems
            /\ rejected' = rejected \cup {refresh_token}
            /\ UNCHANGED <<token, refreshTokenValue, user>>
    /\ UNCHANGED loggedOut
    /\ UNCHANGED ServerVars

\* the instants of the browser's runs: the start, the day the access tokens
\* of the start expire, and the day its refresh tokens expire
ClientInstants == {1, 1 + AccessTTL, 1 + RefreshTTL}

NextClient ==
    \/ \E u \in Usernames, pw \in Passwords : register(u, pw)
    \/ \E u \in Usernames, pw \in Passwords : login(u, pw)
    \/ loginThen
    \/ logout
    \/ refreshToken
    \/ refreshTokenThen
    \/ useEffect
    \/ useEffectThen
    \/ attemptRefreshThen
    \/ \E p \in AProcs : RegInsert(p) /\ UNCHANGED clientVars
    \/ \E p \in AProcs : RefGetUser(p, TRUE) /\ UNCHANGED clientVars
    \/ \E p \in AProcs : CrtSweep(p, TRUE) /\ UNCHANGED clientVars
    \/ \E p \in AProcs : CrtInsert(p, TRUE) /\ UNCHANGED clientVars
    \/ \E p \in AProcs : RefRevoke(p, TRUE) /\ UNCHANGED clientVars
    \/ \E t \in ClientInstants : Tick(t) /\ UNCHANGED clientVars

SpecClient == Init /\ [][NextClient]_vars

(* --------------------- SpecHub: the hub's operations ------------------- *)
\* the message of the n-th broadcast call of SpecHub
HubEvent(n) == [kind |-> EventKinds[(n % 3) + 1], id |-> 7, content |-> n, seq |-> n,
                cidx |-> 0]

\* removeClient calls made so far
RemoveTotal == LET S[i \in -1..MaxChans] == IF i = -1 THEN 0 ELSE S[i - 1] + removeCalls[i]
               IN S[MaxChans]

\* a caller makes a channel and registers it
HubAddClientStep(c) ==
    /\ panicked = "none"
    /\ regAt[c] = -1
    /\ \A d \in Chans : d < c => regAt[d] # -1
    /\ addClient(c)
    /\ regAt' = [regAt EXCEPT ![c] = pubCount]
    /\ UNCHANGED <<chBuf, chClosed, closing, panicked>>
    /\ UNCHANGED <<pubCount, remAt, recvd, dropped, dropLen, removeCalls>>
    /\ UNCHANGED <<authVars, postVars>>

HubAddClient(c) == HubAddClientStep(c)

\* a caller runs the locked section of removeClient(id), for any id
HubRemoveClient(id) ==
    /\ panicked = "none"
    /\ RemoveTotal < MaxRemoves
    /\ removeClient(id)
    /\ removeCalls' = [removeCalls EXCEPT ![id] = @ + 1]
    /\ remAt' = [c \in Chans |->
                    IF c = Lookup(id) /\ remAt[c] = -1 THEN pubCount ELSE remAt[c]]
    /\ UNCHANGED <<nextClientID, chBuf, chClosed>>
    /\ UNCHANGED <<pubCount, regAt, recvd, dropped, dropLen>>
    /\ UNCHANGED <<authVars, postVars>>

\* a caller that left the locked section holding c runs close(c)
HubClose(c) ==
    /\ panicked = "none"
    /\ closing[c] > 0
    /\ closeChan(c)
    /\ UNCHANGED <<clients, nextClientID, chBuf>>
    /\ UNCHANGED hubHist
    /\ UNCHANGED <<authVars, postVars>>

HubBroadcastStep ==
    /\ panicked = "none"
    /\ broadcast(HubEvent(pubCount + 1))
    /\ UNCHANGED <<clients, nextClientID, chClosed, closing>>
    /\ UNCHANGED <<regAt, remAt, recvd, removeCalls>>
    /\ UNCHANGED <<authVars, postVars>>

HubBroadcast == pubCount < MaxPublish /\ HubBroadcastStep

RecvTotal == LET S[c \in 0..MaxChans] == IF c = 0 THEN 0 ELSE S[c - 1] + Len(recvd[c])
             IN S[MaxChans]

HubRecvStep(c) ==
    /\ panicked = "none"
    /\ recv(c)
    /\ UNCHANGED <<clients, nextClientID, chClosed, closing, panicked>>
    /\ UNCHANGED <<pubCount, regAt, remAt, dropped, dropLen, removeCalls>>
    /\ UNCHANGED <<authVars, postVars>>

HubRecv(c) == RecvTotal < MaxRecv /\ HubRecvStep(c)

NextHub ==
    \/ \E c \in Chans : HubAddClient(c)
    \/ \E id \in 0..MaxChans : HubRemoveClient(id)
    \/ \E c \in Chans : HubClose(c)
    \/ HubBroadcast
    \/ \E c \in Chans : HubRecv(c)

SpecHub == Init /\ [][NextHub]_vars

(* ------------- SpecFull: the hub with stalled subscribers -------------- *)
\* Channels are registered early and then broadcast runs past the channel
\* capacity while the subscribers read little or nothing.
FullAddClient(c) == pubCount <= MaxLateJoin /\ HubAddClientStep(c)

FullBroadcast == pubCount < ChanCap + MaxOverflow /\ HubBroadcastStep

FullRecv(c) == RecvTotal < MaxRecv /\ HubRecvStep(c)

NextFull ==
    \/ \E c \in Chans : FullAddClient(c)
    \/ FullBroadcast
    \/ \E c \in Chans : FullRecv(c)

SpecFull == Init /\ [][NextFull]_vars

(* ----- SpecQueue: stalled mailboxes that are removed and closed ----- *)
\* mailboxes come and go while the first events are published
QueueRemoveClient(id) == pubCount <= MaxLateJoin /\ HubRemoveClient(id)

NextQueue ==
    \/ \E c \in Chans : FullAddClient(c)
    \/ \E id \in 0..MaxChans : QueueRemoveClient(id)
    \/ \E c \in Chans : HubClose(c)
    \/ FullBroadcast

SpecQueue == Init /\ [][NextQueue]_vars

(* ----- SpecStream: stream handlers whose connections are closed ----- *)

\* the connection of a stream handler is closed: r.Context() is cancelled
StreamCancel(h) ==
    /\ spc[h] \in {"snapshot", "loop"}
    /\ ~ctxDone[h]
    /\ ctxDone' = [ctxDone EXCEPT ![h] = TRUE]
    /\ UNCHANGED <<spc, sid, snapAt, pings>>
    /\ UNCHANGED <<postDB, writerVars, hubVars, hubHist, authVars>>
    /\ UNCHANGED firstFrame

\* the loop's select takes case <-ctx.Done()
StreamDone(h) == ctxDone[h] /\ StreamReturn(h)

\* a handler of a writing endpoint publishes an event
StreamBroadcast == pubCount < MaxStreamEvents /\ HubBroadcastStep

NextStream ==
    \/ \E h \in Chans : StreamOpen(h)
    \/ \E h \in Chans : StreamSnapshot(h, TRUE)
    \/ \E h \in Chans : StreamRecv(h)
    \/ \E h \in Chans : StreamPing(h)
    \/ \E h \in Chans : StreamCancel(h)
    \/ \E h \in Chans : StreamDone(h)
    \/ \E h \in Chans : StreamClose(h)
    \/ StreamBroadcast

\* a goroutine that can take a step is scheduled, and a select with a ready
\* case picks among the ready cases at random, so a case that stays ready
\* is taken
SpecStream ==
    /\ Init
    /\ [][NextStream]_vars
    /\ \A h \in Chans : WF_vars(StreamSnapshot(h, TRUE))
    /\ \A h \in Chans : WF_vars(StreamDone(h))
    /\ \A h \in Chans : WF_vars(StreamClose(h))

(* ----- SpecSnapshot: stream handlers whose snapshot query can fail ----- *)
NextSnapshot ==
    \/ \E h \in Chans : StreamOpen(h)
    \/ \E h \in Chans, ok \in BOOLEAN : StreamSnapshot(h, ok)
    \/ \E h \in Chans : StreamRecv(h)
    \/ \E h \in Chans : StreamPing(h)
    \/ \E h \in Chans : StreamReturn(h)
    \/ \E h \in Chans : StreamClose(h)
    \/ StreamBroadcast

SpecSnapshot == Init /\ [][NextSnapshot]_vars

(* ---- SpecReg: concurrent first-run registrations and their tokens ----- *)
\* payload.Username values of the registrations: empty and two names
RegUsernames == {"", "admin", "editor"}

NextReg ==
    \/ \E p \in AProcs, u \in RegUsernames, pw \in Passwords : Register(p, u, pw) /\ UNCHANGED clientVars
    \/ \E p \in AProcs : RegInsert(p) /\ UNCHANGED clientVars
    \/ \E p \in AProcs : CrtSweep(p, TRUE) /\ UNCHANGED clientVars
    \/ \E p \in AProcs : CrtInsert(p, TRUE) /\ UNCHANGED clientVars
    \/ \E p \in AProcs, hdr \in HeaderInputs : Validate(p, hdr) /\ UNCHANGED clientVars
    \/ \E t \in Instants : Tick(t) /\ UNCHANGED clientVars

SpecReg == Init /\ [][NextReg]_vars

(* ----- SpecRefresh: token refresh with failing database statements ----- *)
NextRefresh ==
    \/ \E p \in AProcs, u \in Usernames, pw \in Passwords : Register(p, u, pw) /\ UNCHANGED clientVars
    \/ \E p \in AProcs : RegInsert(p) /\ UNCHANGED clientVars
    \/ \E p \in AProcs, raw \in RawInputs, ok \in BOOLEAN : Refresh(p, raw, ok) /\ UNCHANGED clientVars
    \/ \E p \in AProcs, ok \in BOOLEAN : RefGetUser(p, ok) /\ UNCHANGED clientVars
    \/ \E p \in AProcs, ok \in BOOLEAN : CrtSweep(p, ok) /\ UNCHANGED clientVars
    \/ \E p \in AProcs, ok \in BOOLEAN : CrtInsert(p, ok) /\ UNCHANGED clientVars
    \/ \E p \in AProcs, ok \in BOOLEAN : RefRevoke(p, ok) /\ UNCHANGED clientVars
    \/ \E t \in Instants : Tick(t) /\ UNCHANGED clientVars

SpecRefresh == Init /\ [][NextRefresh]_vars

(* ============================== claims ================================= *)
\* the messages a channel has been handed so far, in order: those read from
\* it followed by those still buffered
Got(c) == recvd[c] \o chBuf[c]

GotSeqs(c) == {Got(c)[i].seq : i \in 1..Len(Got(c))}

\* the last broadcast that found the channel registered
LastSeen(c) == IF remAt[c] = -1 THEN pubCount ELSE remAt[c]

\* the events broadcast while c was registered and not dropped for it, in
\* publish order
ExpectedSeq(c) ==
    LET F[i \in regAt[c]..LastSeen(c)] ==
            IF i = regAt[c] THEN <<>>
            ELSE IF i \in dropped[c] THEN F[i - 1]
            ELSE Append(F[i - 1], HubEvent(i))
    IN F[LastSeen(c)]

\* C5: a registered mailbox is handed exactly the events published after its
\* registration, in publish order and each once (less the events dropped on
\* a full queue); what its reader has received is a prefix of them.
C5_EventsAfterRegistrationInOrder ==
    \A c \in Chans :
        IF regAt[c] = -1
        THEN Got(c) = <<>>
        ELSE Got(c) = ExpectedSeq(c)

\* C5 witness: a mailbox registered after the first publish has read the
\* second event and holds the third
C5_Witness ==
    \E c \in Chans :
        /\ regAt[c] = 1
        /\ recvd[c] = <<HubEvent(2)>>
        /\ chBuf[c] = <<HubEvent(3)>>

\* C6: broadcast never waits: it is enabled whatever the queues hold; an
\* event is dropped for a mailbox only when its queue holds ChanCap
\* messages, the full queue is left as it was, and every other registered
\* mailbox with room has the event appended.
C6_DropInv ==
    /\ \A c \in Chans : Len(chBuf[c]) <= ChanCap /\ dropLen[c] \subseteq {ChanCap}
    /\ (panicked = "none" /\ pubCount < ChanCap + MaxOverflow) => ENABLED FullBroadcast

C6_DropStep ==
    pubCount' = pubCount + 1 =>
        \A c \in Chans :
            IF c \in Targets
            THEN IF Len(chBuf[c]) = ChanCap
                 THEN chBuf'[c] = chBuf[c] /\ dropped'[c] = dropped[c] \cup {pubCount'}
                 ELSE chBuf'[c] = Append(chBuf[c], HubEvent(pubCount'))
                      /\ dropped'[c] = dropped[c]
            ELSE chBuf'[c] = chBuf[c] /\ dropped'[c] = dropped[c]

C6_DropOnFull == []C6_DropInv /\ [][C6_DropStep]_vars

\* C6 witness: an event was dropped for a full mailbox whose reader never
\* read, and another mailbox received that event
C6_Witness ==
    \E c, d \in Chans :
        /\ c # d
        /\ Len(chBuf[c]) = ChanCap
        /\ recvd[c] = <<>>
        /\ dropped[c] # {}
        /\ dropped[c] \subseteq GotSeqs(d)

\* c's entry was in the registry when the i-th broadcast ran
RegisteredAt(c, i) ==
    /\ regAt[c] # -1
    /\ regAt[c] < i
    /\ i <= LastSeen(c)

\* number of copies of the i-th event handed to c
Copies(c, i) == Cardinality({k \in 1..Len(Got(c)) : Got(c)[k].seq = i})

C7_DeliveryInv ==
    /\ panicked = "none"
    /\ \A c \in Chans : \A i \in 1..pubCount :
          /\ (RegisteredAt(c, i) /\ i \notin dropped[c]) => Copies(c, i) = 1
          /\ ~RegisteredAt(c, i) => (Copies(c, i) = 0 /\ i \notin dropped[c])

C7_NoSubscriberStep ==
    (pubCount' = pubCount + 1 /\ DOMAIN clients = {}) => UNCHANGED hubVars

\* C7: a publish hands one copy of the event to each mailbox registered at
\* that moment and nothing to a mailbox not registered then (not yet added,
\* or already removed); with no mailbox registered it changes nothing in
\* the hub and raises no panic.
C7_PublishToRegisteredOnly == []C7_DeliveryInv /\ [][C7_NoSubscriberStep]_vars

\* C7 witness: two mailboxes were registered, one was removed, and the
\* publish that followed reached only the other
C7_Witness ==
    /\ regAt[1] = 0 /\ regAt[2] = 0
    /\ remAt[1] = 0 /\ remAt[2] = -1
    /\ pubCount = 1
    /\ Got(1) = <<>>
    /\ Got(2) = <<HubEvent(1)>>

C8_NoDoubleClose ==
    /\ panicked = "none"
    /\ \A c \in Chans : closing[c] + (IF chClosed[c] THEN 1 ELSE 0) <= 1

C8_AbsentIdStep ==
    \A id \in 0..MaxChans :
        (removeCalls'[id] = removeCalls[id] + 1 /\ id \notin DOMAIN clients)
            => UNCHANGED hubVars

\* C8: removeClient on an id that is not in the registry (removed before, or
\* never registered) changes nothing in the hub and raises no panic, and no
\* channel is ever closed twice.
C8_RemoveIdempotent == []C8_NoDoubleClose /\ [][C8_AbsentIdStep]_vars

\* C8 witness: removeClient ran twice on the id of a registered mailbox and
\* its channel was closed once
C8_Witness ==
    /\ removeCalls[0] = 2
    /\ chClosed[1]
    /\ closing[1] = 0
    /\ panicked = "none"

\* the refresh tokens consumed by a successful refresh
Consumed == {r.old : r \in rotations}

C2_AtMostOneRotationPerToken ==
    \A r1, r2 \in rotations : r1.old = r2.old => r1 = r2

\* C3: no change already reflected in a connection's snapshot (committed
\* before the snapshot query ran) is also handed to that connection's
\* mailbox as an event.
C3_SnapshotChangeNotRedelivered ==
    \A h \in Streams :
        snapAt[h] >= 0 =>
            \A i \in 1..Len(Got(h)) : Got(h)[i].cidx \notin 1..snapAt[h]

\* the change with commit index i has reached, or can still reach, the
\* mailbox of h: it was handed to it, or dropped on its full queue, or its
\* broadcast has not run yet, or its request has not answered yet
Accounted(h, i) ==
    \/ \E j \in 1..Len(Got(h)) : Got(h)[j].cidx = i
    \/ commitLog[i].serial \in dropped[h]
    \/ \E m \in pending : m.cidx = i
    \/ \E w \in Writers : wloc[w].cidx = i

\* C4: every post change committed after a connection's snapshot was read is
\* handed to the connection's mailbox as an event while the connection is
\* open, unless it was dropped on the mailbox's full queue.
C4_NoChangeLost ==
    \A h \in Streams :
        (snapAt[h] >= 0 /\ spc[h] = "loop") =>
            \A i \in (snapAt[h] + 1)..Commits : Accounted(h, i)

PostMethods == {"POST /api/posts", "PUT /api/posts/", "DELETE /api/posts/"}

KindOf(method) ==
    CASE method = "POST /api/posts" -> "post-created"
      [] method = "PUT /api/posts/" -> "post-updated"
      [] method = "DELETE /api/posts/" -> "post-deleted"
      [] OTHER -> "none"

Success(status) == status \in {200, 201, 204}

\* the step writes a response
Responded == wresp'.serial # wresp.serial

\* the broadcasts the step starts
Started == pending' \ pending

\* C9: the step in which a post create, update or delete answers success
\* starts exactly one broadcast, of the matching kind, for that request and
\* post, and the change it reports is already committed; a step that answers
\* failure (401, 400, 404, 500), and any other step, starts none.
C9_Step ==
    IF Responded /\ wresp'.method \in PostMethods /\ Success(wresp'.status)
    THEN \E m \in Started :
            /\ Started = {m}
            /\ m.kind = KindOf(wresp'.method)
            /\ m.seq = wresp'.serial
            /\ m.id = wresp'.id
            /\ m.cidx > 0 =>
                  /\ m.cidx <= Len(commitLog')
                  /\ commitLog'[m.cidx].serial = m.seq
    ELSE Started = {}

C9_OneBroadcastPerSuccess == [][C9_Step]_vars

\* C9 witness: an update of an existing post answered 200 and its
\* post-updated broadcast is started while the post's post-created
\* broadcast has not run yet
C9_Witness ==
    /\ wresp.method = "PUT /api/posts/"
    /\ wresp.status = 200
    /\ \E m \in pending :
          m.kind = "post-updated" /\ m.seq = wresp.serial /\ m.cidx > 0
    /\ \E m \in pending : m.kind = "post-created"

\* the header carries "Bearer " and a token validateJWT accepts
Authorized(hdr) == hdr.scheme = "Bearer" /\ validateJWT(hdr.token) # Invalid

StorageChanged == postDB' # postDB \/ settings' # settings

\* C10: a request of a writing endpoint whose header is not "Bearer " with
\* a token validateJWT accepts is answered 401 in a step that changes no
\* stored state, starts no broadcast and leaves the hub as it was; every
\* step that changes stored state or starts a broadcast is taken by a
\* request whose header is such.
C10_Step ==
    /\ (Responded /\ ~Authorized(wresp'.hdr)) =>
          /\ wresp'.status = 401
          /\ ~StorageChanged
          /\ Started = {}
          /\ UNCHANGED hubVars
    /\ (StorageChanged \/ Started # {}) =>
          \/ Responded /\ Authorized(wresp'.hdr)
          \/ \E w \in Writers :
                /\ wloc'[w] # wloc[w]
                /\ wloc'[w].method # "none"
                /\ Authorized(wloc'[w].hdr)
    /\ \A w \in Writers : wloc[w].method # "none" => Authorized(wloc[w].hdr)

C11_AtMostOneUser == Cardinality(users) <= 1

\* the access tokens generateJWT has issued: those the responses carried
\* and those of the requests still being served
IssuedJWTs ==
    {e.jwt : e \in emitted} \cup {aloc[p].jwt : p \in {q \in AProcs : aloc[q].jwt # NoJWT}}

\* C12: validateJWT applied to a token generateJWT issued returns the id and
\* username of the user it was issued for as long as the expiry is ahead, an
\* error from the expiry on, and an error for the same claims signed with
\* another secret.
C12_AccessTokenRoundTrip ==
    /\ \A t \in IssuedJWTs :
          /\ now < t.exp =>
                /\ validateJWT(t) = [uid |-> t.uid, username |-> t.username]
                /\ \E u \in users : u.id = t.uid /\ u.username = t.username
          /\ now >= t.exp => validateJWT(t) = Invalid
          /\ validateJWT(Resigned(t, OtherSecret)) = Invalid
    /\ \A e \in emitted : e.jwt.uid = e.uid /\ e.jwt.exp <= now + AccessTTL

\* C12 witness: a day after it was issued, the token of a response was
\* presented to GET /api/auth/validate and answered with its user
C12_Witness ==
    \E e \in emitted :
        /\ now = 2
        /\ e.jwt.exp = 1 + AccessTTL
        /\ aresp.hdr = Bearer(e.jwt)
        /\ aresp.status = 200
        /\ aresp.uid = e.uid
        /\ aresp.username = "editor"

\* the unexpired rows of the refresh-token table that hold the hash of raw
LiveRows(raw) ==
    {r \in refresh_tokens : r.token_hash = sha256(raw) /\ r.expires_at > now}

\* the step starts a refresh request and answers it "invalid refresh token"
RefreshRejected ==
    /\ areqs' # areqs
    /\ apc' = apc
    /\ aresp'.body = "invalid refresh token"

\* the step starts a refresh request on goroutine p and redeems its token
RefreshRedeemed(p) == apc[p] = "idle" /\ apc'[p] = "ref_getuser"

\* C13: a refresh request is redeemed, with the owner's id, exactly when the
\* table holds an unexpired row with the hash of the presented value; a
\* request whose token has no such row is answered 401 in a step that
\* leaves the tables and the hub as they were and issues nothing.
C13_Step ==
    /\ RefreshRejected =>
          /\ LiveRows(aresp'.raw) = {}
          /\ aresp'.status = 401
          /\ UNCHANGED <<authDB, hubVars, emitted, rotations>>
    /\ \A p \in AProcs :
          RefreshRedeemed(p) =>
              /\ \E r \in LiveRows(aloc'[p].raw) : r.user_id = aloc'[p].uid
              /\ aloc'[p].uid # 0

C13_RedeemOnlyLiveRecord == [][C13_Step]_vars

\* C13 witness: a refresh presenting a token whose row is still stored but
\* has expired was answered 401
C13_Witness ==
    /\ aresp.body = "invalid refresh token"
    /\ \E r \in refresh_tokens :
          r.token_hash = sha256(aresp.raw) /\ r.expires_at <= now

\* C14: after a logout, the refresh token the session held is no longer
\* accepted by validateRefreshToken, the check of POST /api/auth/refresh.
C14_LoggedOutTokenInvalid == \A raw \in loggedOut : validateRefreshToken(raw) = 0

\* the raw refresh-token values generated so far, returned or about to be
RawsIssued == 1..rng

\* C15: the refresh-token table has the four columns user_id, token_hash,
\* expires_at and created_at, and token_hash is never a raw value that was
\* generated for a caller but the hash of one; no two responses carry the
\* same raw value, and a response carries a raw value only in the step that
\* issues it, a value no response carried before.
C15_Inv ==
    /\ \A r \in refresh_tokens :
          /\ DOMAIN r = {"user_id", "token_hash", "expires_at", "created_at"}
          /\ r.token_hash \notin RawsIssued
          /\ \E raw \in RawsIssued : r.token_hash = sha256(raw)
    /\ \A e \in emitted : e.raw \in RawsIssued
    /\ \A e1, e2 \in emitted : e1.raw = e2.raw => e1 = e2

C15_Step ==
    /\ aresp'.refreshToken # 0 /\ aresp' # aresp =>
          /\ aresp'.refreshToken \notin {e.raw : e \in emitted}
          /\ \E e \in emitted' \ emitted :
                 e.raw = aresp'.refreshToken /\ e.jwt = aresp'.token /\ e.uid = aresp'.uid
          /\ Cardinality(emitted') = Cardinality(emitted) + 1
    /\ emitted' # emitted => aresp'.refreshToken \in {e.raw : e \in emitted' \ emitted}

C15_OnlyHashesStored == []C15_Inv /\ [][C15_Step]_vars

\* C15 witness: two responses carried refresh tokens, the second in answer to
\* a refresh of the first, and the table holds the hash of the second
C15_Witness ==
    \E e1, e2 \in emitted :
        /\ [old |-> e1.raw, new |-> e2.raw, uid |-> e2.uid, exp |-> e2.exp] \in rotations
        /\ aresp.refreshToken = e2.raw
        /\ \E r \in refresh_tokens : r.token_hash = sha256(e2.raw)

\* C16: the signing secret stored under 'jwt_secret' when the process
\* started stays the stored value, whatever requests are served.
C16_StoredSecretWriteOnce ==
    /\ "jwt_secret" \in DOMAIN settings
    /\ settings["jwt_secret"] = base64(SecretBytes)

\* a refresh token that a response carried and whose 30 days are over
ExpiredRaw(raw) == \E e \in emitted : e.raw = raw /\ e.exp <= now

\* a refresh token that a successful refresh has consumed
RotatedRaw(raw) == raw \in Consumed

\* a value that createRefreshToken never stored and no response carried
NeverIssuedRaw(raw) ==
    /\ raw \notin {e.raw : e \in emitted}
    /\ ~ \E r \in refresh_tokens : r.token_hash = sha256(raw)
    /\ raw \notin Consumed

BadRaw(raw) == raw # EmptyRaw /\ (ExpiredRaw(raw) \/ RotatedRaw(raw) \/ NeverIssuedRaw(raw))

\* an access token past its expiry, one that is no token, and one whose
\* signature was not made with a.JWTSecret
BadJWT(tok) ==
    \/ now >= tok.exp
    \/ tok = NoJWT
    \/ tok.sig # hmac(tok.uid, tok.username, tok.exp, JWTSecret)

\* the one answer a refresh with a bad token gets, and the one a bearer
\* request with a bad token gets
RefreshInvalid(raw) == [ErrorResp(401, "invalid refresh token") EXCEPT !.raw = raw]
BearerInvalid(hdr) == [ErrorResp(401, "invalid token") EXCEPT !.hdr = hdr]

\* C17: a refresh presenting an expired, a never issued or an already
\* rotated token is not redeemed, and every refresh that is turned down for
\* its token gets the same 401 "invalid refresh token"; requireAuth and
\* GET /api/auth/validate answer the same 401 "invalid token" for a bearer
\* token that is expired, malformed or signed with another secret.
C17_Inv ==
    /\ \A raw \in RawInputs : BadRaw(raw) => validateRefreshToken(raw) = 0
    /\ \A tok \in JWTInputs : BadJWT(tok) => requireAuth(Bearer(tok)) = "invalid token"
    /\ aresp.body # "user not found"

C17_Step ==
    /\ \A p \in AProcs :
          RefreshRedeemed(p) => ~BadRaw(aloc'[p].raw)
    /\ areqs' # areqs /\ apc' = apc /\ aresp'.raw # 0 =>
          aresp' = RefreshInvalid(aresp'.raw)
    /\ areqs' # areqs /\ apc' = apc /\ aresp'.hdr.scheme = "Bearer"
          /\ BadJWT(aresp'.hdr.token) =>
          aresp' = BearerInvalid(aresp'.hdr)

C17_TokenFailuresUniform == []C17_Inv /\ [][C17_Step]_vars

\* C17 witness: a refresh token that was rotated and has since expired was
\* presented and turned down, while the access token issued with it is
\* expired too and turned down by requireAuth
C17_Witness ==
    /\ aresp = RefreshInvalid(aresp.raw)
    /\ RotatedRaw(aresp.raw)
    /\ ExpiredRaw(aresp.raw)
    /\ \E e \in emitted :
          e.raw = aresp.raw /\ requireAuth(Bearer(e.jwt)) = "invalid token"

\* C18: as long as the clock and the signing secret stay as they are, no
\* step (a login, a refresh with its rotation and revocation, a sweep, a
\* logout of the browser) changes what validateJWT returns for an access
\* token, issued or presented.
C18_Step ==
    now' = now /\ JWTSecret' = JWTSecret =>
        \A tok \in IssuedJWTs \cup JWTInputs : validateJWT(tok)' = validateJWT(tok)

C18_ValidationStateless == [][C18_Step]_vars

\* C18 witness: the refresh token issued with an access token was rotated
\* away and the browser has logged out, and the access token is still accepted
C18_Witness ==
    \E e \in emitted :
        /\ RotatedRaw(e.raw)
        /\ validateRefreshToken(e.raw) = 0
        /\ loggedOut # {}
        /\ refresh_token = 0
        /\ validateJWT(e.jwt) = [uid |-> e.uid, username |-> e.jwt.username]

\* C19: a refresh token whose refresh the browser saw rejected is no longer
\* kept by the browser, neither in localStorage nor in the state from which
\* refreshToken sends it, so it cannot be sent again.
C19_RejectedTokenDiscarded ==
    \A raw \in rejected : refresh_token # raw /\ refreshTokenValue # raw

\* C20: every registry entry holds the mailbox of a stream handler that
\* has not returned, under the id addClient gave that handler; an entry
\* leaves the registry only in the step in which its own handler returns;
\* and once a handler's request context is cancelled, its id is eventually
\* absent from the registry.
C20_OwnedInv ==
    \A id \in DOMAIN clients :
        \E h \in Chans :
            /\ sid[h] = id
            /\ clients[id] = h
            /\ spc[h] \in {"snapshot", "loop"}

C20_OwnerRemovesStep ==
    \A id \in (DOMAIN clients) \ (DOMAIN clients') :
        \E h \in Chans :
            /\ sid[h] = id
            /\ spc[h] = "loop"
            /\ spc'[h] = "closing"

C20_CancelUnregisters ==
    /\ []C20_OwnedInv
    /\ [][C20_OwnerRemovesStep]_vars
    /\ \A h \in Chans : ctxDone[h] ~> (sid[h] \notin DOMAIN clients)

\* C20 witness: a handler whose context was cancelled has returned and its
\* id is gone from the registry, while another handler is still registered
\* with an event in its mailbox
C20_Witness ==
    \E h, g \in Chans :
        /\ ctxDone[h]
        /\ spc[h] = "done"
        /\ sid[h] \notin DOMAIN clients
        /\ chClosed[h]
        /\ sid[g] \in DOMAIN clients
        /\ chBuf[g] # <<>>

\* C21: the first frame a stream handler writes is the snapshot frame: no
\* event frame and no ping frame is written before it.
C21_SnapshotFirst == \A h \in Chans : firstFrame[h] \in {"none", "snapshot"}

\* the step answers a request of the method with the status
Answers(method, status) ==
    Responded /\ wresp'.method = method /\ wresp'.status = status

\* C22: a post enters storage only in the step that answers POST /api/posts
\* with 201 and its id, an id never used before; it stays, whatever updates
\* are made, until the step that answers a DELETE of its id with 204, and
\* never comes back; GET /api/posts/{id} answers 200 with the stored post
\* while it is stored and 404 otherwise, and GET /api/posts lists exactly
\* the stored posts.
C22_Inv == DOMAIN posts \subseteq 1..(nextPostID - 1)

C22_Step ==
    /\ nextPostID' >= nextPostID
    /\ \A i \in (DOMAIN posts') \ (DOMAIN posts) :
          Answers("POST /api/posts", 201) /\ wresp'.id = i /\ i = nextPostID
    /\ \A i \in (DOMAIN posts) \ (DOMAIN posts') :
          Answers("DELETE /api/posts/", 204) /\ wresp'.id = i
    /\ Answers("POST /api/posts", 201) =>
          wresp'.id \in (DOMAIN posts') \ (DOMAIN posts)
    /\ Answers("DELETE /api/posts/", 204) => wresp'.id \notin DOMAIN posts'
    /\ Responded /\ wresp'.method = "GET /api/posts/" /\ wresp'.status # 500 =>
          IF wresp'.id \in DOMAIN posts
          THEN /\ wresp'.status = 200
               /\ wresp'.data = [i \in {wresp'.id} |-> posts[i]]
          ELSE wresp'.status = 404
    /\ Responded /\ wresp'.method = "GET /api/posts" /\ wresp'.status # 500 =>
          wresp'.status = 200 /\ wresp'.data = posts

C22_PostLifecycle == []C22_Inv /\ [][C22_Step]_vars

\* C22 witness: a post was created and deleted, and a GET of its id was
\* answered 404
C22_Witness ==
    /\ wresp.method = "GET /api/posts/"
    /\ wresp.status = 404
    /\ wresp.id < nextPostID
    /\ \E i \in DOMAIN commitLog : commitLog[i].status = 204

\* C28: a refresh answered with a new token pair has deleted the row of the
\* token it was given, and every stored row belongs to a token pair that a
\* response carried or that a refresh handler is about to answer with, so a
\* refresh answered with an error leaves no row behind.
C28_RefreshAllOrNothing ==
    /\ aresp.body = "tokens" /\ aresp.raw # 0 =>
          ~ \E r \in refresh_tokens : r.token_hash = sha256(aresp.raw)
    /\ \A r \in refresh_tokens :
          \/ \E e \in emitted : r.token_hash = sha256(e.raw)
          \/ \E p \in AProcs : /\ apc[p] = "ref_revoke"
                               /\ r.token_hash = sha256(aloc[p].newRaw)

\* the rows of owner uid whose expiry is earlier than now
ExpiredRowsOf(uid) == {r \in refresh_tokens : r.user_id = uid /\ r.expires_at < now}

\* C23: the DELETE of createRefreshToken(U) removes exactly the rows of U
\* whose expires_at is earlier than now, and its INSERT adds exactly one row,
\* owned by U, with the hash of the new token and expires_at = now + 30 days;
\* every other row is left as it was.
C23_Step ==
    \A p \in AProcs :
        /\ apc[p] = "crt_sweep" /\ apc'[p] = "crt_insert" =>
              refresh_tokens' = refresh_tokens \ ExpiredRowsOf(aloc[p].uid)
        /\ apc[p] = "crt_insert" /\ apc'[p] # "crt_insert" =>
              /\ refresh_tokens \subseteq refresh_tokens'
              /\ refresh_tokens' \ refresh_tokens =
                    {[user_id |-> aloc[p].uid, token_hash |-> sha256(aloc[p].newRaw),
                      expires_at |-> now + RefreshTTL, created_at |-> now]}

C24_Inv ==
    /\ DOMAIN clients \subseteq 0..(nextClientID - 1)
    /\ \A c \in Chans : Len(chBuf[c]) <= ChanCap

C24_Step ==
    /\ nextClientID' >= nextClientID
    /\ \A id \in (DOMAIN clients') \ (DOMAIN clients) :
          /\ id = nextClientID
          /\ nextClientID' = id + 1
          /\ \A j \in DOMAIN clients : j < id

C24_IdsGrowQueuesBounded == []C24_Inv /\ [][C24_Step]_vars

\* C24 witness: the first mailbox was removed, the mailbox registered after
\* it got the next id, and its queue is full with an event dropped
C24_Witness ==
    /\ removeCalls[0] > 0
    /\ DOMAIN clients = {1}
    /\ Len(chBuf[clients[1]]) = ChanCap
    /\ dropped[clients[1]] # {}

\* C25: the process never panics on a send to a closed channel or on a
\* second close; a channel that is closed, or that a caller of removeClient
\* is about to close, is no longer in the registry, and only one caller
\* ever holds it; a broadcast changes only queues of channels that are in
\* the registry, and a close happens only to a channel taken out of it.
C25_Inv ==
    /\ panicked \notin {"send on closed channel", "close of closed channel"}
    /\ \A c \in Chans :
          /\ (chClosed[c] \/ closing[c] > 0) => c \notin Targets
          /\ closing[c] \in {0, 1}
          /\ chClosed[c] => closing[c] = 0

C25_Step ==
    /\ pubCount' # pubCount =>
          \A c \in Chans : chBuf'[c] # chBuf[c] => (c \in Targets /\ ~chClosed[c])
    /\ \A c \in Chans :
          chClosed'[c] /\ ~chClosed[c] => (c \notin Targets /\ closing[c] = 1)

C25_NoSendOnClosedNoDoubleClose == []C25_Inv /\ [][C25_Step]_vars

\* C25 witness: a mailbox was removed twice and closed once, and an event
\* published afterwards went to the other mailbox only
C25_Witness ==
    \E c, d \in Chans :
        /\ chClosed[c]
        /\ \E id \in 0..MaxChans : removeCalls[id] = 2 /\ regAt[c] # -1 /\ id = c - 1
        /\ remAt[c] < pubCount
        /\ d \in Targets
        /\ chBuf[d] # <<>>
        /\ panicked = "none"

\* C26: events reach a mailbox in commit order: of two events in a mailbox
\* (received or still queued) that come from committed mutations of the
\* same post, both committed after the mailbox's handler read its snapshot
\* (so the mailbox was registered throughout), the one committed first
\* comes first.
C26_EventsInCommitOrder ==
    \A c \in Chans :
        \A i, j \in 1..Len(Got(c)) :
            (/\ i < j
             /\ snapAt[c] # -1
             /\ Got(c)[i].id = Got(c)[j].id
             /\ Got(c)[i].cidx > snapAt[c]
             /\ Got(c)[j].cidx > snapAt[c])
            => Got(c)[i].cidx < Got(c)[j].cidx

\* C29: a post-deleted event is published only by a DELETE that removed a
\* post: every post-deleted event, whether its goroutine is still to run or
\* it is in a mailbox, belongs to a committed deletion, and a DELETE answered
\* 204 committed one.
C29_DeletedEventHasDeletion ==
    /\ \A m \in pending : m.kind = "post-deleted" => m.cidx > 0
    /\ \A c \in Chans : \A i \in 1..Len(Got(c)) :
          Got(c)[i].kind = "post-deleted" => Got(c)[i].cidx > 0
    /\ (wresp.method = "DELETE /api/posts/" /\ wresp.status = 204) =>
          \E i \in 1..Len(commitLog) : commitLog[i].serial = wresp.serial

(* ----- the browser's post list (frontend/src/hooks/usePosts.ts) ----- *)
\* a JSON value keeps its type: Post.ID (int64) is encoded as a number, the
\* "id" of map[string]string{"id": idStr} as a string
JSONNumber(n) == <<"number", n>>
JSONString(n) == <<"string", n>>

\* json.Marshal(v) of broadcast, parsed by the listener's JSON.parse: a Post
\* for post-created and post-updated, {"id": idStr} for post-deleted
Marshal(m) ==
    IF m.kind = "post-deleted"
    THEN [event |-> m.kind, data |-> [id |-> JSONString(m.id)]]
    ELSE [event |-> m.kind,
          data |-> [id |-> JSONNumber(m.id), content |-> m.content]]

\* upsertNote: the note with the same id (===) is replaced, else the item is
\* added; the list is kept as the set of its notes, which sortNotes only
\* reorders
upsertNote(list, item) ==
    IF \E n \in list : n.id = item.id
    THEN {IF n.id = item.id THEN item ELSE n : n \in list}
    ELSE list \cup {item}

\* the post-deleted listener: prev.filter((p) => p.id !== id)
postDeleted(prev, data) == {n \in prev : n.id # data.id}

\* the posts state of usePosts after the listeners handled the first k
\* events of a stream whose snapshot was the empty list
RECURSIVE setPosts(_, _)
setPosts(evs, k) ==
    IF k = 0 THEN {}
    ELSE LET prev == setPosts(evs, k - 1)
             ev == Marshal(evs[k])
         IN  IF ev.event \in {"post-created", "post-updated"}
             THEN upsertNote(prev, ev.data)
             ELSE IF ev.event = "post-deleted"
             THEN postDeleted(prev, ev.data)
             ELSE prev

\* C30: after a client whose snapshot was empty has applied a post-deleted
\* event published for post id i, its post list holds no post with id i
\* (stated for an event of a DELETE that removed the post, received after
\* every earlier event of that post).
C30_DeletedPostLeavesList ==
    \A h \in Chans :
        snapAt[h] = 0 =>
            \A k \in 1..Len(recvd[h]) :
                (/\ recvd[h][k].kind = "post-deleted"
                 /\ recvd[h][k].cidx > 0
                 /\ \A j \in 1..(k - 1) :
                       recvd[h][j].id = recvd[h][k].id =>
                           (recvd[h][j].cidx > 0 /\ recvd[h][j].cidx < recvd[h][k].cidx))
                => \A n \in setPosts(recvd[h], k) : n.id # JSONNumber(recvd[h][k].id)

\* C27: the signing secret is confidential: a response to a request that
\* carries no valid access token holds no value equal to the encoded signing
\* secret.
C27_SecretNotDisclosed ==
    requireAuth(wresp.hdr) # "ok" =>
        \A k \in DOMAIN wresp.data : wresp.data[k] # base64(JWTSecret)

====
